---- MODULE Spec2Model ----
(***************************************************************************)
(* A model of the OCI Core Services server (oci_core_services_server.py):  *)
(* the OCICoreServicesManager with its SDK clients, the tool functions     *)
(* built on it, and the vendor (the OCI SDK endpoints and the `oci`        *)
(* command-line subprocess) as the environment that answers each request   *)
(* by returning or by raising.                                             *)
(*                                                                         *)
(* One tool invocation runs at a time (the coroutines never suspend        *)
(* between two statements other than at a vendor request).  An invocation  *)
(* is a sequence of steps; each step is the code between two vendor        *)
(* requests.  `calls` is the history of the vendor requests the current    *)
(* invocation issued, each with the vendor's answer once it has one.       *)
(*                                                                         *)
(* Python values: None is the string "None"; a dict or a list that the     *)
(* code only passes through is the string of its text ("{}" is the empty   *)
(* dict); a dict the code builds is a record; a list the code builds is a  *)
(* sequence (<<>> is both [] and {}).                                      *)
(***************************************************************************)
EXTENDS Integers, Sequences, FiniteSets, TLC

\* ------------------------------------------------------------------ bounds

MaxInstances == 2
MaxVnics == 2
MaxDatabases == 1

\* ------------------------------------------------------------ Python values

None == "None"
EmptyDict == "{}"
PyFalse == "False"
PyTrue == "True"

Truthy(x) == x \notin {None, "", EmptyDict, PyFalse}

Or(x, default) == IF Truthy(x) THEN x ELSE default

DictGet(d, k, default) == IF k \in DOMAIN d THEN d[k] ELSE default

Now == "utcnow().isoformat()Z"

SeqUpTo(S, n) == UNION {[1..k -> S] : k \in 0..n}

Lowercase ==
    <<"a","b","c","d","e","f","g","h","i","j","k","l","m",
      "n","o","p","q","r","s","t","u","v","w","x","y","z">>

Uppercase ==
    <<"A","B","C","D","E","F","G","H","I","J","K","L","M",
      "N","O","P","Q","R","S","T","U","V","W","X","Y","Z">>

\* str.upper() on a string held as its sequence of characters.
UpperChar(c) ==
    IF \E i \in 1..26 : Lowercase[i] = c
    THEN Uppercase[CHOOSE i \in 1..26 : Lowercase[i] = c]
    ELSE c

Upper(s) == [i \in 1..Len(s) |-> UpperChar(s[i])]

\* datetime.isoformat() of the timestamps the vendor reports.
IsoFormat(dt) ==
    CASE dt = "datetime(2025,7,30,9,0,0,tz=utc)" -> "2025-07-30T09:00:00+00:00"
      [] dt = "datetime(2025,7,30,9,42,30,tz=utc)" -> "2025-07-30T09:42:30+00:00"

\* --------------------------------------------------------------- exceptions

Returned(v) == [kind |-> "ok", value |-> v]
Raised(e) == [kind |-> "raise", error |-> e]

ServiceError == "ServiceError"

\* ------------------------------------------------------------------- state

VARIABLES
    config,            \* OCICoreServicesManager.config: None or the loaded profile
    compute_client,    \* OCICoreServicesManager.compute_client
    network_client,    \* OCICoreServicesManager.network_client
    database_client,   \* OCICoreServicesManager.database_client
    environ,           \* os.environ.get('OCI_COMPARTMENT_ID')
    call,              \* the invocation in progress: its name and arguments
    pc,                \* where the invocation stands
    frame,             \* the invocation's local variables
    calls,             \* vendor requests of the invocation, with their answers
    result             \* what the invocation returned or raised

manager == <<config, compute_client, network_client, database_client>>
vars == <<config, compute_client, network_client, database_client,
          environ, call, pc, frame, calls, result>>

\* ------------------------------------------------------- the OCI config file

ConfigFile == [tenancy |-> "ocid1.tenancy.oc1..root", region |-> "us-ashburn-1"]

\* self.config.get(key, default)
ConfigGet(cfg, key, default) ==
    IF cfg # None /\ key \in DOMAIN ConfigFile THEN ConfigFile[key] ELSE default

\* _initialize_clients: `failing` is the step that raises (0: none);
\* 1 from_file, 2 validate_config, 3 ComputeClient, 4 VirtualNetworkClient,
\* 5 DatabaseClient.
InitSteps == 0..5

\* _initialize_clients: what the try block has assigned when it ends, by
\* returning or by the raise of step `failing`: an assignment is made when
\* the call on its right-hand side returned.
InitAssigned(failing) ==
    [config |-> IF failing = 1 THEN None ELSE "DEFAULT",
     compute_client |->
         IF failing \in {1, 2, 3} THEN None ELSE "ComputeClient",
     network_client |->
         IF failing \in {1, 2, 3, 4} THEN None ELSE "VirtualNetworkClient",
     database_client |->
         IF failing \in {1, 2, 3, 4, 5} THEN None ELSE "DatabaseClient"]

\* Faulty variant of _initialize_clients: the except block only logs.
_initialize_clients_keeps_partial(failing) == InitAssigned(failing)

_initialize_clients(failing) ==
    IF failing = 0
    THEN InitAssigned(failing)
    ELSE \* the except block
         [config |-> None, compute_client |-> None,
          network_client |-> None, database_client |-> None]

\* Faulty variant of get_compartment_id: the tenancy of the config is taken
\* before the environment is looked at.
get_compartment_id_tenancy_first ==
    IF Truthy(config)
    THEN ConfigGet(config, "tenancy", None)
    ELSE environ

\* get_compartment_id
get_compartment_id ==
    IF ~Truthy(environ) /\ Truthy(config)
    THEN ConfigGet(config, "tenancy", None)
    ELSE environ

\* --------------------------------------------------- arguments, environment

CompartmentArgs == {None, "ocid1.compartment.oc1..arg"}
InstanceStates == {"RUNNING", "STOPPED"}
DatabaseStates == {"AVAILABLE", "STOPPED"}
DatabaseStateArgs == {None, "AVAILABLE"}
WorkloadArgs == {None, "OLTP"}
DbSystemIdArgs == {"ocid1.dbsystem.oc1..1"}
AutonomousDatabaseIdArgs == {"ocid1.autonomousdatabase.oc1..1"}
EnvironValues == {None, "", "ocid1.compartment.oc1..env"}
InstanceIdArgs == {"ocid1.instance.oc1..1"}

\* ------------------------------------------------------------ vendor objects

InstanceTemplates == {"full", "bare"}

Created == "datetime(2025,7,30,9,0,0,tz=utc)"

\* An oci.core.models.Instance as the vendor holds it.  The optional
\* attributes (display_name, image_id, fault_domain, metadata, tags) are null
\* in a "bare" instance.
InstanceById(tpl, id, compartment_id, lifecycle_state) ==
    [id |-> id,
     display_name |-> IF tpl = "full" THEN "web" ELSE None,
     shape |-> "VM.Standard.E4.Flex",
     lifecycle_state |-> lifecycle_state,
     availability_domain |-> "AD-1",
     compartment_id |-> compartment_id,
     time_created |-> Created,
     image_id |-> IF tpl = "full" THEN "ocid1.image.oc1..img" ELSE None,
     fault_domain |-> IF tpl = "full" THEN "FAULT-DOMAIN-1" ELSE None,
     metadata |-> IF tpl = "full" THEN "{ssh_authorized_keys: k}" ELSE None,
     extended_metadata |-> None,
     freeform_tags |-> IF tpl = "full" THEN "{env: prod}" ELSE None,
     defined_tags |-> IF tpl = "full" THEN "{ns: {k: v}}" ELSE None,
     launch_options |-> IF tpl = "full" THEN "{boot_volume_type: PV}" ELSE None,
     instance_options |-> None,
     availability_config |-> None,
     agent_config |-> None]

Instance(tpl, n, compartment_id, lifecycle_state) ==
    InstanceById(tpl, "ocid1.instance.oc1.." \o ToString(n), compartment_id,
                 lifecycle_state)

InstanceLists(compartment_id, lifecycle_state) ==
    {[i \in 1..Len(tpls) |-> Instance(tpls[i], i, compartment_id, lifecycle_state)] :
        tpls \in SeqUpTo(InstanceTemplates, MaxInstances)}

\* The JSON object the `oci` CLI prints for an instance: hyphenated keys, the
\* timestamp as text.  A null attribute is printed as null ("null" style) or
\* left out ("omit" style).
CliStyles == {"null", "omit"}

CliJsonOf(inst, style) ==
    LET all == [x \in {"id", "display-name", "shape", "lifecycle-state",
                       "availability-domain", "compartment-id", "time-created",
                       "image-id", "fault-domain", "metadata", "freeform-tags",
                       "defined-tags"} |->
                 CASE x = "id" -> inst.id
                   [] x = "display-name" -> inst.display_name
                   [] x = "shape" -> inst.shape
                   [] x = "lifecycle-state" -> inst.lifecycle_state
                   [] x = "availability-domain" -> inst.availability_domain
                   [] x = "compartment-id" -> inst.compartment_id
                   [] x = "time-created" -> IsoFormat(inst.time_created)
                   [] x = "image-id" -> inst.image_id
                   [] x = "fault-domain" -> inst.fault_domain
                   [] x = "metadata" -> inst.metadata
                   [] x = "freeform-tags" -> inst.freeform_tags
                   [] x = "defined-tags" -> inst.defined_tags]
    IN IF style = "null" THEN all
       ELSE [x \in {k \in DOMAIN all : all[k] # None} |-> all[x]]

CliJsonDoc(list, style) ==
    [data |-> [i \in 1..Len(list) |-> CliJsonOf(list[i], style)]]

\* A VNIC attachment of an instance, and the VNIC behind it.
VnicAttachment(n) ==
    [id |-> "ocid1.vnicattachment.oc1.." \o ToString(n),
     vnic_id |-> "ocid1.vnic.oc1.." \o ToString(n),
     nic_index |-> n - 1]

\* The attachment lists the vendor may hold for an instance: the n-th instance
\* has at most MaxVnics - (n - 1) attachments, so the first instance has the
\* most interfaces and the later ones fewer.
VnicAttachmentLists(instance_id) ==
    LET n == CHOOSE m \in 1..MaxInstances :
                 instance_id = "ocid1.instance.oc1.." \o ToString(m)
        most == IF n <= MaxVnics THEN MaxVnics - (n - 1) ELSE 0
    IN {[i \in 1..k |-> VnicAttachment(i)] : k \in 0..most}

VnicTemplates == {"primary", "secondary"}

Vnic(tpl, vnic_id) ==
    [id |-> vnic_id,
     is_primary |-> tpl = "primary",
     private_ip |-> IF tpl = "primary" THEN "10.0.0.2" ELSE "10.0.1.2",
     public_ip |-> IF tpl = "primary" THEN "129.146.0.2" ELSE None,
     hostname_label |-> IF tpl = "primary" THEN "web" ELSE None,
     mac_address |-> "02:00:17:00:00:01",
     subnet_id |-> "ocid1.subnet.oc1..s",
     lifecycle_state |-> "AVAILABLE",
     skip_source_dest_check |-> FALSE,
     nsg_ids |-> None]

HomeCompartment == "ocid1.compartment.oc1..home"

\* An oci.database.models.DbSystem as the vendor holds it.
DbSystemById(id, compartment_id, lifecycle_state) ==
    [id |-> id,
     display_name |-> "orders-db",
     shape |-> "VM.Standard2.2",
     lifecycle_state |-> lifecycle_state,
     availability_domain |-> "AD-1",
     compartment_id |-> compartment_id,
     time_created |-> Created,
     database_edition |-> "ENTERPRISE_EDITION",
     version |-> "19.0.0.0",
     node_count |-> "1",
     cpu_core_count |-> "2",
     data_storage_size_in_gbs |-> "256",
     hostname |-> "orders",
     domain |-> "sub.vcn.oraclevcn.com",
     freeform_tags |-> None,
     defined_tags |-> "{ns: {k: v}}"]

DbSystemLists(compartment_id, lifecycle_state) ==
    {[i \in 1..k |-> DbSystemById("ocid1.dbsystem.oc1.." \o ToString(i),
                                  compartment_id, lifecycle_state)] :
        k \in 0..MaxDatabases}

\* An oci.database.models.AutonomousDatabase as the vendor holds it.
AutonomousDatabaseById(id, compartment_id, lifecycle_state, db_workload) ==
    [id |-> id,
     display_name |-> "sales-adb",
     db_name |-> "SALES",
     lifecycle_state |-> lifecycle_state,
     lifecycle_details |-> None,
     db_workload |-> db_workload,
     db_version |-> "19c",
     character_set |-> "AL32UTF8",
     ncharacter_set |-> "AL16UTF16",
     compute_model |-> "ECPU",
     compute_count |-> "2",
     cpu_core_count |-> None,
     data_storage_size_in_tbs |-> "1",
     data_storage_size_in_gbs |-> None,
     provisionable_cpus |-> None,
     is_auto_scaling_enabled |-> PyTrue,
     is_auto_scaling_for_storage_enabled |-> PyFalse,
     is_free_tier |-> PyFalse,
     license_model |-> "LICENSE_INCLUDED",
     whitelisted_ips |-> None,
     are_primary_whitelisted_ips_used |-> None,
     time_created |-> Created,
     compartment_id |-> compartment_id,
     connection_strings |-> "{high: h, low: l}",
     connection_urls |-> [sql_dev_web_url |-> "https://adb/sql",
                          apex_url |-> "https://adb/apex",
                          graph_studio_url |-> None,
                          mongo_db_url |-> None,
                          ords_url |-> "https://adb/ords"],
     service_console_url |-> "https://adb/console",
     is_refreshable_clone |-> None,
     refreshable_status |-> None,
     refreshable_mode |-> None,
     time_of_last_refresh |-> None,
     freeform_tags |-> "{env: prod}",
     defined_tags |-> None,
     system_tags |-> None]

AutonomousDatabaseLists(compartment_id, lifecycle_state, db_workload) ==
    {[i \in 1..k |-> AutonomousDatabaseById(
                        "ocid1.autonomousdatabase.oc1.." \o ToString(i),
                        compartment_id, lifecycle_state, db_workload)] :
        k \in 0..MaxDatabases}

\* The headers of the vendor's response to an accepted action.
ActionResponses ==
    {[headers |-> [x \in {"opc-request-id", "opc-work-request-id"} |->
                    IF x = "opc-request-id" THEN "req-1"
                    ELSE "ocid1.workrequest.oc1..1"]],
     [headers |-> [x \in {"opc-request-id"} |-> "req-1"]]}

\* ------------------------------------------------------------- the vendor

NoAnswer == [kind |-> "pending"]

Request(api, params) == [api |-> api, params |-> params]

\* The outcomes of subprocess.run(['oci', 'compute', 'instance', 'list', ...]):
\* it raises (no `oci` executable), exits non-zero, or exits 0 having printed
\* nothing, a blank line, text that is not JSON, or the JSON listing.
CliAnswers(req) ==
    {Raised("FileNotFoundError: oci")}
    \cup {Returned([returncode |-> 1, stdout |-> [form |-> "empty"],
                    stderr |-> "ServiceError: NotAuthorizedOrNotFound"])}
    \cup {Returned([returncode |-> 0, stdout |-> [form |-> f], stderr |-> ""]) :
            f \in {"empty", "blank", "garbled"}}
    \cup {Returned([returncode |-> 0,
                    stdout |-> [form |-> "json", doc |-> CliJsonDoc(l, st)],
                    stderr |-> ""]) :
            l \in InstanceLists(req.params.compartment_id, req.params.lifecycle_state),
            st \in CliStyles}

\* What the vendor may answer to a request: it raises or returns.
Answers(req) ==
    CASE req.api = "compute.list_instances" ->
            {Raised(ServiceError)} \cup
            {Returned(l) : l \in InstanceLists(req.params.compartment_id,
                                               req.params.lifecycle_state)}
      [] req.api = "subprocess.run" -> CliAnswers(req)
      [] req.api = "compute.get_instance" ->
            {Raised(ServiceError)} \cup
            {Returned(InstanceById(tpl, req.params.instance_id, HomeCompartment, st)) :
                tpl \in InstanceTemplates, st \in InstanceStates}
      [] req.api = "database.list_db_systems" ->
            {Raised(ServiceError)} \cup
            {Returned(l) : l \in DbSystemLists(
                req.params.compartment_id,
                DictGet(req.params, "lifecycle_state", "AVAILABLE"))}
      [] req.api = "database.get_db_system" ->
            {Raised(ServiceError)} \cup
            {Returned(DbSystemById(req.params.db_system_id, HomeCompartment, st)) :
                st \in DatabaseStates}
      [] req.api = "database.list_autonomous_databases" ->
            {Raised(ServiceError)} \cup
            {Returned(l) : l \in AutonomousDatabaseLists(
                req.params.compartment_id,
                DictGet(req.params, "lifecycle_state", "AVAILABLE"),
                DictGet(req.params, "db_workload", "DW"))}
      [] req.api = "database.get_autonomous_database" ->
            {Raised(ServiceError)} \cup
            {Returned(AutonomousDatabaseById(req.params.autonomous_database_id,
                                             HomeCompartment, st, "OLTP")) :
                st \in DatabaseStates}
      [] req.api \in {"compute.instance_action",
                      "database.start_db_system", "database.stop_db_system",
                      "database.start_autonomous_database",
                      "database.stop_autonomous_database",
                      "database.restart_autonomous_database",
                      "database.update_autonomous_database"} ->
            {Raised(ServiceError)} \cup {Returned(r) : r \in ActionResponses}
      [] req.api = "compute.list_vnic_attachments" ->
            {Raised(ServiceError)} \cup
            {Returned(l) : l \in VnicAttachmentLists(req.params.instance_id)}
      [] req.api = "network.get_vnic" ->
            {Raised(ServiceError)} \cup
            {Returned(Vnic(tpl, req.params.vnic_id)) : tpl \in VnicTemplates}

Issue(req) == calls' = Append(calls, [req |-> req, ans |-> NoAnswer])

Answered == calls # <<>> /\ calls[Len(calls)].ans.kind # "pending"

LastAnswer == calls[Len(calls)].ans

\* The vendor answers an outstanding request.
Vendor ==
    /\ \E i \in DOMAIN calls :
          /\ calls[i].ans.kind = "pending"
          /\ \E a \in Answers(calls[i].req) :
                calls' = [calls EXCEPT ![i].ans = a]
    /\ UNCHANGED <<manager, environ, call, pc, frame, result>>

\* ---------------------------------------------- manager: instance listing

LowerState(s) ==
    CASE s = "RUNNING" -> "running"
      [] s = "STOPPED" -> "stopped"
      [] s = "AVAILABLE" -> "available"
      [] OTHER -> s

\* list_instances_sdk: one element of the result
instance_data(instance) ==
    [id |-> instance.id,
     name |-> instance.display_name,
     shape |-> instance.shape,
     state |-> instance.lifecycle_state,
     availability_domain |-> instance.availability_domain,
     compartment_id |-> instance.compartment_id,
     created_time |-> IF Truthy(instance.time_created)
                      THEN IsoFormat(instance.time_created) ELSE None,
     region |-> ConfigGet(config, "region", "unknown"),
     image_id |-> instance.image_id,
     fault_domain |-> instance.fault_domain,
     metadata |-> Or(instance.metadata, EmptyDict),
     tags |-> [freeform |-> Or(instance.freeform_tags, EmptyDict),
               defined |-> Or(instance.defined_tags, EmptyDict)]]

\* list_instances_sdk: the request it sends
list_instances_sdk_request(compartment_id, lifecycle_state) ==
    Request("compute.list_instances",
            [compartment_id |-> compartment_id, lifecycle_state |-> lifecycle_state])

\* Faulty variant of list_instances_sdk_result: the loop stops one short.
list_instances_sdk_result_drops_last(ans) ==
    IF ans.kind = "raise" THEN Raised(ans.error)
    ELSE Returned([i \in 1..(Len(ans.value) - 1) |-> instance_data(ans.value[i])])

\* list_instances_sdk: from the vendor's answer to its result
list_instances_sdk_result(ans) ==
    IF ans.kind = "raise" THEN Raised(ans.error)
    ELSE Returned([i \in 1..Len(ans.value) |-> instance_data(ans.value[i])])

\* list_instances_cli_fallback: the command line it runs
\* Faulty variant of list_instances_cli_fallback_request: the CLI is always
\* asked for the running instances.
list_instances_cli_fallback_request_running(compartment_id, lifecycle_state) ==
    Request("subprocess.run",
            [cmd |-> <<"oci", "compute", "instance", "list",
                       "--compartment-id", compartment_id,
                       "--lifecycle-state", "RUNNING",
                       "--output", "json">>,
             compartment_id |-> compartment_id,
             lifecycle_state |-> "RUNNING"])

list_instances_cli_fallback_request(compartment_id, lifecycle_state) ==
    Request("subprocess.run",
            [cmd |-> <<"oci", "compute", "instance", "list",
                       "--compartment-id", compartment_id,
                       "--lifecycle-state", lifecycle_state,
                       "--output", "json">>,
             compartment_id |-> compartment_id,
             lifecycle_state |-> lifecycle_state])

\* Faulty variant of cli_instance: it reads the SDK's attribute name where the
\* CLI prints a hyphenated key.
cli_instance_underscore(instance_data_) ==
    [id |-> DictGet(instance_data_, "id", ""),
     name |-> DictGet(instance_data_, "display_name", "Unknown"),
     shape |-> DictGet(instance_data_, "shape", "Unknown"),
     state |-> DictGet(instance_data_, "lifecycle-state", "Unknown"),
     availability_domain |-> DictGet(instance_data_, "availability-domain", "Unknown"),
     compartment_id |-> DictGet(instance_data_, "compartment-id", ""),
     created_time |-> DictGet(instance_data_, "time-created", ""),
     region |-> "unknown",
     image_id |-> DictGet(instance_data_, "image-id", ""),
     fault_domain |-> DictGet(instance_data_, "fault-domain", ""),
     metadata |-> DictGet(instance_data_, "metadata", EmptyDict),
     tags |-> [freeform |-> DictGet(instance_data_, "freeform-tags", EmptyDict),
               defined |-> DictGet(instance_data_, "defined-tags", EmptyDict)]]

\* list_instances_cli_fallback: one element of the result
cli_instance(instance_data_) ==
    [id |-> DictGet(instance_data_, "id", ""),
     name |-> DictGet(instance_data_, "display-name", "Unknown"),
     shape |-> DictGet(instance_data_, "shape", "Unknown"),
     state |-> DictGet(instance_data_, "lifecycle-state", "Unknown"),
     availability_domain |-> DictGet(instance_data_, "availability-domain", "Unknown"),
     compartment_id |-> DictGet(instance_data_, "compartment-id", ""),
     created_time |-> DictGet(instance_data_, "time-created", ""),
     region |-> "unknown",
     image_id |-> DictGet(instance_data_, "image-id", ""),
     fault_domain |-> DictGet(instance_data_, "fault-domain", ""),
     metadata |-> DictGet(instance_data_, "metadata", EmptyDict),
     tags |-> [freeform |-> DictGet(instance_data_, "freeform-tags", EmptyDict),
               defined |-> DictGet(instance_data_, "defined-tags", EmptyDict)]]

\* Faulty variant of StdoutBlank: the output is not stripped.
StdoutBlank_unstripped(stdout) == stdout.form = "empty"

\* result.stdout.strip() is empty
StdoutBlank(stdout) == stdout.form \in {"empty", "blank"}

\* list_instances_cli_fallback: from the subprocess's outcome to its result
list_instances_cli_fallback_result(ans) ==
    IF ans.kind = "raise" THEN Raised(ans.error)
    ELSE IF ans.value.returncode # 0
    THEN Raised("CLI command failed: " \o ans.value.stderr)
    ELSE IF StdoutBlank(ans.value.stdout) THEN Returned(<<>>)
    ELSE IF ans.value.stdout.form # "json" THEN Raised("JSONDecodeError")
    ELSE LET data == DictGet(ans.value.stdout.doc, "data", <<>>)
         IN Returned([i \in 1..Len(data) |-> cli_instance(data[i])])

\* ------------------------------------------------------ tool invocations

Idle == [name |-> "idle"]
NoResult == [kind |-> "none"]


Init ==
    /\ \E failing \in InitSteps :
          LET m == _initialize_clients(failing)
          IN /\ config = m.config
             /\ compute_client = m.compute_client
             /\ network_client = m.network_client
             /\ database_client = m.database_client
    /\ environ \in EnvironValues
    /\ call = Idle
    /\ pc = "idle"
    /\ frame = <<>>
    /\ calls = <<>>
    /\ result = NoResult

\* The tool returns `response` to its caller.
Finish(response) == pc' = "done" /\ result' = Returned(response)

\* The caller has the result; the server is ready for the next invocation.
NextInvocation ==
    /\ pc = "done"
    /\ call' = Idle
    /\ pc' = "idle"
    /\ frame' = <<>>
    /\ calls' = <<>>
    /\ result' = NoResult
    /\ UNCHANGED <<manager, environ>>

\* ------------------------------------------- tool: list_compute_instances

list_compute_instances_response(instances, method, target_compartment, lifecycle_state) ==
    [success |-> TRUE,
     summary |-> "Found " \o ToString(Len(instances)) \o " "
                 \o LowerState(lifecycle_state) \o " compute instances in "
                 \o ConfigGet(config, "region", "unknown region"),
     count |-> Len(instances),
     method |-> method,
     filters |-> [compartment_id |-> target_compartment,
                  lifecycle_state |-> lifecycle_state],
     instances |-> instances,
     retrieved_at |-> Now]

list_compute_instances_error(e) ==
    [success |-> FALSE,
     summary |-> "Failed to list compute instances: " \o e,
     count |-> 0,
     method |-> "Error",
     instances |-> <<>>,
     error |-> e,
     retrieved_at |-> Now]

\* list_compute_instances, to its first vendor request
list_compute_instances ==
    \E compartment_id \in CompartmentArgs, lifecycle_state \in InstanceStates :
      LET target_compartment == Or(compartment_id, get_compartment_id)
      IN /\ pc = "idle"
         /\ call' = [name |-> "list_compute_instances",
                     args |-> [compartment_id |-> compartment_id,
                               lifecycle_state |-> lifecycle_state]]
         /\ IF ~Truthy(target_compartment)
            THEN /\ Finish(list_compute_instances_error("Compartment ID is required"))
                 /\ frame' = [target_compartment |-> target_compartment,
                              sdk_error |-> None]
                 /\ UNCHANGED calls
            ELSE IF ~Truthy(compute_client)
            THEN \* list_instances_sdk raises 'OCI SDK not available'
                 /\ Issue(list_instances_cli_fallback_request(target_compartment,
                                                              lifecycle_state))
                 /\ frame' = [target_compartment |-> target_compartment,
                              sdk_error |-> "OCI SDK not available"]
                 /\ pc' = "list_compute_instances.cli"
                 /\ UNCHANGED result
            ELSE /\ Issue(list_instances_sdk_request(target_compartment,
                                                     lifecycle_state))
                 /\ frame' = [target_compartment |-> target_compartment,
                              sdk_error |-> None]
                 /\ pc' = "list_compute_instances.sdk"
                 /\ UNCHANGED result
         /\ UNCHANGED <<manager, environ>>

\* Faulty variant of list_compute_instances_sdk: the CLI runs whatever the SDK
\* listing did.
list_compute_instances_sdk_always_cli ==
    /\ pc = "list_compute_instances.sdk"
    /\ Answered
    /\ Issue(list_instances_cli_fallback_request(
                frame.target_compartment, call.args.lifecycle_state))
    /\ pc' = "list_compute_instances.cli"
    /\ UNCHANGED <<manager, environ, call, frame, result>>

\* Faulty variant of list_compute_instances_sdk: after an SDK failure the
\* compute client is given up for the invocations to come.
list_compute_instances_sdk_drops_client ==
    /\ pc = "list_compute_instances.sdk"
    /\ Answered
    /\ LET r == list_instances_sdk_result(LastAnswer)
       IN IF r.kind = "ok"
          THEN /\ Finish(list_compute_instances_response(
                            r.value, "OCI Python SDK", frame.target_compartment,
                            call.args.lifecycle_state))
               /\ UNCHANGED <<calls, frame, compute_client>>
          ELSE /\ Issue(list_instances_cli_fallback_request(
                            frame.target_compartment, call.args.lifecycle_state))
               /\ frame' = [frame EXCEPT !.sdk_error = r.error]
               /\ pc' = "list_compute_instances.cli"
               /\ compute_client' = None
               /\ UNCHANGED result
    /\ UNCHANGED <<config, network_client, database_client, environ, call>>

\* Faulty variant of list_compute_instances_sdk: an SDK failure is reported at
\* once.
list_compute_instances_sdk_no_fallback ==
    /\ pc = "list_compute_instances.sdk"
    /\ Answered
    /\ LET r == list_instances_sdk_result(LastAnswer)
       IN IF r.kind = "ok"
          THEN /\ Finish(list_compute_instances_response(
                            r.value, "OCI Python SDK", frame.target_compartment,
                            call.args.lifecycle_state))
               /\ UNCHANGED frame
          ELSE /\ Finish(list_compute_instances_error(r.error))
               /\ frame' = [frame EXCEPT !.sdk_error = r.error]
    /\ UNCHANGED <<manager, environ, call, calls>>

\* list_compute_instances, from the SDK listing's answer
list_compute_instances_sdk ==
    /\ pc = "list_compute_instances.sdk"
    /\ Answered
    /\ LET r == list_instances_sdk_result(LastAnswer)
       IN IF r.kind = "ok"
          THEN /\ Finish(list_compute_instances_response(
                            r.value, "OCI Python SDK", frame.target_compartment,
                            call.args.lifecycle_state))
               /\ UNCHANGED <<calls, frame>>
          ELSE /\ Issue(list_instances_cli_fallback_request(
                            frame.target_compartment, call.args.lifecycle_state))
               /\ frame' = [frame EXCEPT !.sdk_error = r.error]
               /\ pc' = "list_compute_instances.cli"
               /\ UNCHANGED result
    /\ UNCHANGED <<manager, environ, call>>

\* Faulty variant of list_compute_instances_cli: the CLI's listing is labelled
\* as the SDK's.
list_compute_instances_cli_mislabelled ==
    /\ pc = "list_compute_instances.cli"
    /\ Answered
    /\ LET r == list_instances_cli_fallback_result(LastAnswer)
       IN IF r.kind = "ok"
          THEN Finish(list_compute_instances_response(
                        r.value, "OCI Python SDK", frame.target_compartment,
                        call.args.lifecycle_state))
          ELSE Finish(list_compute_instances_error(r.error))
    /\ UNCHANGED <<manager, environ, call, frame, calls>>

\* Faulty variant of list_compute_instances_cli: a failed CLI run is tried
\* once more.
list_compute_instances_cli_retry ==
    /\ pc = "list_compute_instances.cli"
    /\ Answered
    /\ LET r == list_instances_cli_fallback_result(LastAnswer)
           runs == {i \in DOMAIN calls : calls[i].req.api = "subprocess.run"}
       IN IF r.kind = "ok"
          THEN /\ Finish(list_compute_instances_response(
                            r.value, "OCI CLI", frame.target_compartment,
                            call.args.lifecycle_state))
               /\ UNCHANGED calls
          ELSE IF Cardinality(runs) < 2
          THEN /\ Issue(list_instances_cli_fallback_request(
                            frame.target_compartment, call.args.lifecycle_state))
               /\ UNCHANGED <<pc, result>>
          ELSE /\ Finish(list_compute_instances_error(r.error))
               /\ UNCHANGED calls
    /\ UNCHANGED <<manager, environ, call, frame>>

\* list_compute_instances, from the CLI subprocess's outcome
list_compute_instances_cli ==
    /\ pc = "list_compute_instances.cli"
    /\ Answered
    /\ LET r == list_instances_cli_fallback_result(LastAnswer)
       IN IF r.kind = "ok"
          THEN Finish(list_compute_instances_response(
                        r.value, "OCI CLI", frame.target_compartment,
                        call.args.lifecycle_state))
          ELSE Finish(list_compute_instances_error(r.error))
    /\ UNCHANGED <<manager, environ, call, frame, calls>>

\* ------------------------------------- manager: instance details, network

\* x.__dict__ if x else {}
DictOf(x) == IF Truthy(x) THEN x ELSE EmptyDict

\* get_instance_details_sdk: the request it sends
get_instance_request(instance_id) ==
    Request("compute.get_instance", [instance_id |-> instance_id])

\* get_instance_details_sdk: from the vendor's answer to its result
get_instance_details_sdk_result(ans) ==
    IF ans.kind = "raise" THEN Raised(ans.error)
    ELSE LET instance == ans.value
         IN Returned(
              [id |-> instance.id,
               name |-> instance.display_name,
               shape |-> instance.shape,
               state |-> instance.lifecycle_state,
               availability_domain |-> instance.availability_domain,
               compartment_id |-> instance.compartment_id,
               created_time |-> IF Truthy(instance.time_created)
                                THEN IsoFormat(instance.time_created) ELSE None,
               region |-> ConfigGet(config, "region", "unknown"),
               image_id |-> instance.image_id,
               fault_domain |-> instance.fault_domain,
               metadata |-> Or(instance.metadata, EmptyDict),
               extended_metadata |-> Or(instance.extended_metadata, EmptyDict),
               tags |-> [freeform |-> Or(instance.freeform_tags, EmptyDict),
                         defined |-> Or(instance.defined_tags, EmptyDict)],
               configuration |->
                 [launch_options |-> DictOf(instance.launch_options),
                  instance_options |-> DictOf(instance.instance_options),
                  availability_config |-> DictOf(instance.availability_config),
                  agent_config |-> DictOf(instance.agent_config)]])

\* get_instance_network_info_sdk: the listing of the VNIC attachments
list_vnic_attachments_request(instance_id, compartment_id) ==
    Request("compute.list_vnic_attachments",
            [compartment_id |-> compartment_id, instance_id |-> instance_id])

\* get_instance_network_info_sdk: the lookup of one attachment's VNIC
get_vnic_request(vnic_attachment) ==
    Request("network.get_vnic", [vnic_id |-> vnic_attachment.vnic_id])

\* get_instance_network_info_sdk: one element of the result
network_info(vnic_attachment, vnic) ==
    [attachment_id |-> vnic_attachment.id,
     vnic_id |-> vnic_attachment.vnic_id,
     is_primary |-> vnic.is_primary,
     private_ip |-> vnic.private_ip,
     public_ip |-> vnic.public_ip,
     hostname |-> vnic.hostname_label,
     mac_address |-> vnic.mac_address,
     subnet_id |-> vnic.subnet_id,
     nic_index |-> vnic_attachment.nic_index,
     state |-> vnic.lifecycle_state,
     skip_source_dest_check |-> vnic.skip_source_dest_check,
     security_groups |-> IF Truthy(vnic.nsg_ids) THEN vnic.nsg_ids ELSE "[]"]

\* next((nic for nic in network_info if nic['is_primary']), None): its index, 0 for None
PrimaryNic(nics) ==
    IF \E i \in 1..Len(nics) : nics[i].is_primary
    THEN CHOOSE i \in 1..Len(nics) :
           nics[i].is_primary /\ \A j \in 1..(i - 1) : ~nics[j].is_primary
    ELSE 0

\* ---------------------------------------------- tool: get_instance_details

\* Faulty variant of get_instance_details_response: network_info_included
\* repeats the include_network argument.
get_instance_details_response_as_asked(instance_details, nics, include_network) ==
    LET p == PrimaryNic(nics)
    IN [success |-> TRUE,
        summary |-> "Instance '" \o instance_details.name \o "' ("
                    \o instance_details.shape \o ") is "
                    \o LowerState(instance_details.state)
                    \o (IF p # 0
                        THEN " with private IP " \o nics[p].private_ip
                             \o (IF Truthy(nics[p].public_ip)
                                 THEN " and public IP " \o nics[p].public_ip
                                 ELSE "")
                        ELSE ""),
        method |-> "OCI Python SDK",
        instance |-> instance_details,
        network_interfaces |-> nics,
        network_info_included |-> include_network,
        retrieved_at |-> Now]

get_instance_details_response(instance_details, nics, include_network) ==
    LET p == PrimaryNic(nics)
    IN [success |-> TRUE,
        summary |-> "Instance '" \o instance_details.name \o "' ("
                    \o instance_details.shape \o ") is "
                    \o LowerState(instance_details.state)
                    \o (IF p # 0
                        THEN " with private IP " \o nics[p].private_ip
                             \o (IF Truthy(nics[p].public_ip)
                                 THEN " and public IP " \o nics[p].public_ip
                                 ELSE "")
                        ELSE ""),
        method |-> "OCI Python SDK",
        instance |-> instance_details,
        network_interfaces |-> nics,
        network_info_included |-> include_network /\ Len(nics) > 0,
        retrieved_at |-> Now]

\* Faulty variant of get_instance_details_error: the message goes to the
\* summary only.
get_instance_details_error_unreported(e) ==
    [success |-> FALSE,
     summary |-> "Failed to get instance details: " \o e,
     method |-> "Error",
     instance |-> <<>>,
     network_interfaces |-> <<>>,
     network_info_included |-> FALSE,
     error |-> "",
     retrieved_at |-> Now]

get_instance_details_error(e) ==
    [success |-> FALSE,
     summary |-> "Failed to get instance details: " \o e,
     method |-> "Error",
     instance |-> <<>>,
     network_interfaces |-> <<>>,
     network_info_included |-> FALSE,
     error |-> e,
     retrieved_at |-> Now]

\* get_instance_details, to its first vendor request
get_instance_details ==
    \E instance_id \in InstanceIdArgs, compartment_id \in CompartmentArgs,
       include_network \in BOOLEAN :
      /\ pc = "idle"
      /\ call' = [name |-> "get_instance_details",
                  args |-> [instance_id |-> instance_id,
                            compartment_id |-> compartment_id,
                            include_network |-> include_network]]
      /\ frame' = [target_compartment |-> Or(compartment_id, get_compartment_id)]
      /\ IF Truthy(compute_client)
         THEN /\ Issue(get_instance_request(instance_id))
              /\ pc' = "get_instance_details.get"
              /\ UNCHANGED result
         ELSE /\ Finish(get_instance_details_error("Instance details require OCI SDK"))
              /\ UNCHANGED calls
      /\ UNCHANGED <<manager, environ>>

\* get_instance_details, from the answer to get_instance
get_instance_details_get ==
    /\ pc = "get_instance_details.get"
    /\ Answered
    /\ LET r == get_instance_details_sdk_result(LastAnswer)
       IN IF r.kind = "raise"
          THEN /\ Finish(get_instance_details_error(r.error))
               /\ UNCHANGED <<frame, calls>>
          ELSE IF /\ call.args.include_network
                  /\ Truthy(network_client)
                  /\ Truthy(frame.target_compartment)
          THEN \* get_instance_network_info_sdk: both clients exist here
               /\ Issue(list_vnic_attachments_request(call.args.instance_id,
                                                      frame.target_compartment))
               /\ frame' = [target_compartment |-> frame.target_compartment,
                            instance_details |-> r.value]
               /\ pc' = "get_instance_network_info_sdk.attachments"
               /\ UNCHANGED result
          ELSE /\ Finish(get_instance_details_response(
                            r.value, <<>>, call.args.include_network))
               /\ UNCHANGED <<frame, calls>>
    /\ UNCHANGED <<manager, environ, call>>

\* --------------------------------------- tool: list_instances_with_network

\* Faulty variant of with_network: the convenience fields are taken from the
\* first interface, primary or not.
with_network_first(instance, nics) ==
    [network_interfaces |-> nics,
     primary_private_ip |-> IF nics # <<>> THEN nics[1].private_ip ELSE None,
     primary_public_ip |-> IF nics # <<>> THEN nics[1].public_ip ELSE None,
     hostname |-> IF nics # <<>> THEN nics[1].hostname ELSE None] @@ instance

\* the fields the tool adds to an instance record
with_network(instance, nics) ==
    LET p == PrimaryNic(nics)
    IN [network_interfaces |-> nics,
        primary_private_ip |-> IF p # 0 THEN nics[p].private_ip ELSE None,
        primary_public_ip |-> IF p # 0 THEN nics[p].public_ip ELSE None,
        hostname |-> IF p # 0 THEN nics[p].hostname ELSE None] @@ instance

\* the fields the tool adds when there is no network information
without_network(instance) ==
    [network_interfaces |-> <<>>,
     primary_private_ip |-> None,
     primary_public_ip |-> None,
     hostname |-> None] @@ instance

list_instances_with_network_response(instances, method, target_compartment, lifecycle_state) ==
    LET network_enabled == network_client # None
    IN [success |-> TRUE,
        summary |-> "Found " \o ToString(Len(instances)) \o " "
                    \o LowerState(lifecycle_state) \o " compute instances"
                    \o (IF network_enabled THEN " with network information"
                        ELSE " (network details require SDK)"),
        count |-> Len(instances),
        method |-> method,
        network_info_included |-> network_enabled,
        filters |-> [compartment_id |-> target_compartment,
                     lifecycle_state |-> lifecycle_state],
        instances |-> instances,
        retrieved_at |-> Now]

list_instances_with_network_error(e) ==
    [success |-> FALSE,
     summary |-> "Failed to list instances with network info: " \o e,
     count |-> 0,
     method |-> "Error",
     network_info_included |-> FALSE,
     instances |-> <<>>,
     error |-> e,
     retrieved_at |-> Now]

\* list_instances_with_network, to its first vendor request
list_instances_with_network ==
    \E compartment_id \in CompartmentArgs, lifecycle_state \in InstanceStates :
      LET target_compartment == Or(compartment_id, get_compartment_id)
      IN /\ pc = "idle"
         /\ call' = [name |-> "list_instances_with_network",
                     args |-> [compartment_id |-> compartment_id,
                               lifecycle_state |-> lifecycle_state]]
         /\ frame' = [target_compartment |-> target_compartment]
         /\ IF ~Truthy(target_compartment)
            THEN /\ Finish(list_instances_with_network_error(
                              "Compartment ID is required"))
                 /\ UNCHANGED calls
            ELSE IF Truthy(compute_client)
            THEN /\ Issue(list_instances_sdk_request(target_compartment,
                                                     lifecycle_state))
                 /\ pc' = "list_instances_with_network.sdk"
                 /\ UNCHANGED result
            ELSE /\ Issue(list_instances_cli_fallback_request(target_compartment,
                                                              lifecycle_state))
                 /\ pc' = "list_instances_with_network.cli"
                 /\ UNCHANGED result
         /\ UNCHANGED <<manager, environ>>

\* Faulty variant of list_instances_with_network_enhance: the network lookups
\* of all the instances are started together.
list_instances_with_network_enhance_fans_out(r, method) ==
    IF r.kind = "raise"
    THEN /\ Finish(list_instances_with_network_error(r.error))
         /\ UNCHANGED <<frame, calls>>
    ELSE IF ~Truthy(network_client) \/ ~Truthy(compute_client)
    THEN /\ Finish(list_instances_with_network_response(
                      [i \in 1..Len(r.value) |-> without_network(r.value[i])],
                      method, frame.target_compartment, call.args.lifecycle_state))
         /\ UNCHANGED <<frame, calls>>
    ELSE IF r.value = <<>>
    THEN /\ Finish(list_instances_with_network_response(
                      <<>>, method, frame.target_compartment,
                      call.args.lifecycle_state))
         /\ UNCHANGED <<frame, calls>>
    ELSE /\ calls' = calls \o
                     [i \in 1..Len(r.value) |->
                        [req |-> list_vnic_attachments_request(
                                     r.value[i].id, frame.target_compartment),
                         ans |-> NoAnswer]]
         /\ frame' = [target_compartment |-> frame.target_compartment,
                      instances |-> r.value, method |-> method,
                      index |-> Len(r.value)]
         /\ pc' = "get_instance_network_info_sdk.attachments"
         /\ UNCHANGED result

\* list_instances_with_network, from the listing's result: the loop that adds
\* the network information, to its first vendor request
list_instances_with_network_enhance(r, method) ==
    IF r.kind = "raise"
    THEN /\ Finish(list_instances_with_network_error(r.error))
         /\ UNCHANGED <<frame, calls>>
    ELSE IF ~Truthy(network_client)
    THEN /\ Finish(list_instances_with_network_response(
                      [i \in 1..Len(r.value) |-> without_network(r.value[i])],
                      method, frame.target_compartment, call.args.lifecycle_state))
         /\ UNCHANGED <<frame, calls>>
    ELSE IF ~Truthy(compute_client)
    THEN \* get_instance_network_info_sdk raises at once for every instance
         /\ Finish(list_instances_with_network_response(
                      [i \in 1..Len(r.value) |-> without_network(r.value[i])],
                      method, frame.target_compartment, call.args.lifecycle_state))
         /\ UNCHANGED <<frame, calls>>
    ELSE IF r.value = <<>>
    THEN /\ Finish(list_instances_with_network_response(
                      <<>>, method, frame.target_compartment,
                      call.args.lifecycle_state))
         /\ UNCHANGED <<frame, calls>>
    ELSE /\ Issue(list_vnic_attachments_request(r.value[1].id,
                                                frame.target_compartment))
         /\ frame' = [target_compartment |-> frame.target_compartment,
                      instances |-> r.value, method |-> method, index |-> 1]
         /\ pc' = "get_instance_network_info_sdk.attachments"
         /\ UNCHANGED result

\* list_instances_with_network, from the SDK listing's answer
list_instances_with_network_sdk ==
    /\ pc = "list_instances_with_network.sdk"
    /\ Answered
    /\ list_instances_with_network_enhance(list_instances_sdk_result(LastAnswer),
                                           "OCI Python SDK")
    /\ UNCHANGED <<manager, environ, call>>

\* list_instances_with_network, from the CLI subprocess's outcome
list_instances_with_network_cli ==
    /\ pc = "list_instances_with_network.cli"
    /\ Answered
    /\ list_instances_with_network_enhance(
            list_instances_cli_fallback_result(LastAnswer),
            "OCI CLI (limited network info)")
    /\ UNCHANGED <<manager, environ, call>>

\* ------------------------- get_instance_network_info_sdk, inside the tools

\* The caller's code after get_instance_network_info_sdk returned `nics`.
AfterNetworkInfo(nics) ==
    IF call.name = "get_instance_details"
    THEN /\ Finish(get_instance_details_response(
                      frame.instance_details, nics, call.args.include_network))
         /\ UNCHANGED <<frame, calls>>
    ELSE LET instances == [frame.instances EXCEPT
                             ![frame.index] = with_network(@, nics)]
         IN IF frame.index < Len(instances)
            THEN /\ Issue(list_vnic_attachments_request(
                              instances[frame.index + 1].id,
                              frame.target_compartment))
                 /\ frame' = [target_compartment |-> frame.target_compartment,
                              instances |-> instances,
                              method |-> frame.method,
                              index |-> frame.index + 1]
                 /\ pc' = "get_instance_network_info_sdk.attachments"
                 /\ UNCHANGED result
            ELSE /\ Finish(list_instances_with_network_response(
                              instances, frame.method, frame.target_compartment,
                              call.args.lifecycle_state))
                 /\ UNCHANGED <<frame, calls>>

\* get_instance_network_info_sdk, from the answer to list_vnic_attachments
get_instance_network_info_sdk_attachments ==
    /\ pc = "get_instance_network_info_sdk.attachments"
    /\ Answered
    /\ IF LastAnswer.kind = "raise" THEN AfterNetworkInfo(<<>>)
       ELSE IF LastAnswer.value = <<>> THEN AfterNetworkInfo(<<>>)
       ELSE /\ Issue(get_vnic_request(LastAnswer.value[1]))
            /\ frame' = [vnic_attachments |-> LastAnswer.value,
                         vnic_index |-> 1,
                         network_interfaces |-> <<>>] @@ frame
            /\ pc' = "get_instance_network_info_sdk.vnic"
            /\ UNCHANGED result
    /\ UNCHANGED <<manager, environ, call>>

\* Faulty variant of get_instance_network_info_sdk_vnic: a VNIC that cannot be
\* read ends the loop, and the attachments after it are not looked up.
get_instance_network_info_sdk_vnic_gives_up ==
    /\ pc = "get_instance_network_info_sdk.vnic"
    /\ Answered
    /\ LET vnic_attachment == frame.vnic_attachments[frame.vnic_index]
           network_interfaces ==
               IF LastAnswer.kind = "ok"
               THEN Append(frame.network_interfaces,
                           network_info(vnic_attachment, LastAnswer.value))
               ELSE frame.network_interfaces
       IN IF /\ frame.vnic_index < Len(frame.vnic_attachments)
             /\ LastAnswer.kind = "ok"
          THEN /\ Issue(get_vnic_request(frame.vnic_attachments[frame.vnic_index + 1]))
               /\ frame' = [frame EXCEPT !.vnic_index = @ + 1,
                                         !.network_interfaces = network_interfaces]
               /\ UNCHANGED <<pc, result>>
          ELSE AfterNetworkInfo(network_interfaces)
    /\ UNCHANGED <<manager, environ, call>>

\* get_instance_network_info_sdk, from the answer to get_vnic
get_instance_network_info_sdk_vnic ==
    /\ pc = "get_instance_network_info_sdk.vnic"
    /\ Answered
    /\ LET vnic_attachment == frame.vnic_attachments[frame.vnic_index]
           network_interfaces ==
               IF LastAnswer.kind = "ok"
               THEN Append(frame.network_interfaces,
                           network_info(vnic_attachment, LastAnswer.value))
               ELSE frame.network_interfaces
       IN IF frame.vnic_index < Len(frame.vnic_attachments)
          THEN /\ Issue(get_vnic_request(frame.vnic_attachments[frame.vnic_index + 1]))
               /\ frame' = [frame EXCEPT !.vnic_index = @ + 1,
                                         !.network_interfaces = network_interfaces]
               /\ UNCHANGED <<pc, result>>
          ELSE AfterNetworkInfo(network_interfaces)
    /\ UNCHANGED <<manager, environ, call>>

\* ------------------------------------------------- manager: state checks

\* Faulty variant of get_instance_state_sdk_result: the state is lower-cased.
get_instance_state_sdk_result_lowered(instance_id, ans) ==
    IF ans.kind = "raise" THEN Raised(ans.error)
    ELSE LET instance == ans.value
         IN Returned(
              [instance_id |-> instance_id,
               instance_name |-> instance.display_name,
               lifecycle_state |-> LowerState(instance.lifecycle_state),
               shape |-> instance.shape,
               availability_domain |-> instance.availability_domain,
               compartment_id |-> instance.compartment_id,
               time_created |-> IF Truthy(instance.time_created)
                                THEN IsoFormat(instance.time_created) ELSE None,
               retrieved_at |-> Now])

\* get_instance_state_sdk: from the vendor's answer to its result
get_instance_state_sdk_result(instance_id, ans) ==
    IF ans.kind = "raise" THEN Raised(ans.error)
    ELSE LET instance == ans.value
         IN Returned(
              [instance_id |-> instance_id,
               instance_name |-> instance.display_name,
               lifecycle_state |-> instance.lifecycle_state,
               shape |-> instance.shape,
               availability_domain |-> instance.availability_domain,
               compartment_id |-> instance.compartment_id,
               time_created |-> IF Truthy(instance.time_created)
                                THEN IsoFormat(instance.time_created) ELSE None,
               retrieved_at |-> Now])

\* get_database_state_sdk: the request it sends
get_db_system_request(db_system_id) ==
    Request("database.get_db_system", [db_system_id |-> db_system_id])

\* get_database_state_sdk: from the vendor's answer to its result
get_database_state_sdk_result(db_system_id, ans) ==
    IF ans.kind = "raise" THEN Raised(ans.error)
    ELSE LET db_system == ans.value
         IN Returned(
              [db_system_id |-> db_system_id,
               db_system_name |-> db_system.display_name,
               lifecycle_state |-> db_system.lifecycle_state,
               shape |-> db_system.shape,
               database_edition |-> db_system.database_edition,
               version |-> db_system.version,
               node_count |-> db_system.node_count,
               cpu_core_count |-> db_system.cpu_core_count,
               availability_domain |-> db_system.availability_domain,
               compartment_id |-> db_system.compartment_id,
               time_created |-> IF Truthy(db_system.time_created)
                                THEN IsoFormat(db_system.time_created) ELSE None,
               retrieved_at |-> Now])

\* get_autonomous_database_state_sdk: the request it sends
get_autonomous_database_request(autonomous_database_id) ==
    Request("database.get_autonomous_database",
            [autonomous_database_id |-> autonomous_database_id])

\* get_autonomous_database_state_sdk: from the vendor's answer to its result
get_autonomous_database_state_sdk_result(autonomous_database_id, ans) ==
    IF ans.kind = "raise" THEN Raised(ans.error)
    ELSE LET adb == ans.value
         IN Returned(
              [autonomous_database_id |-> autonomous_database_id,
               database_name |-> adb.display_name,
               db_name |-> adb.db_name,
               lifecycle_state |-> adb.lifecycle_state,
               lifecycle_details |-> adb.lifecycle_details,
               db_workload |-> adb.db_workload,
               compute_model |-> adb.compute_model,
               compute_count |-> adb.compute_count,
               cpu_core_count |-> adb.cpu_core_count,
               data_storage_size_in_tbs |-> adb.data_storage_size_in_tbs,
               is_auto_scaling_enabled |-> adb.is_auto_scaling_enabled,
               is_free_tier |-> adb.is_free_tier,
               compartment_id |-> adb.compartment_id,
               time_created |-> IF Truthy(adb.time_created)
                                THEN IsoFormat(adb.time_created) ELSE None,
               retrieved_at |-> Now])

\* workload_names.get(w, w)
WorkloadName(w) ==
    CASE w = "OLTP" -> "Transaction Processing"
      [] w = "DW" -> "Data Warehouse"
      [] w = "AJD" -> "JSON Database"
      [] w = "APEX" -> "APEX Application Development"
      [] OTHER -> w

\* ------------------------------------------------------ tools: state checks

StateResponse(summary, state_info) ==
    [success |-> TRUE,
     summary |-> summary,
     method |-> "OCI Python SDK",
     state_info |-> state_info,
     retrieved_at |-> Now]

\* Faulty variant of StateError: the failure response has no state_info.
StateError_bare(prefix, e) ==
    [success |-> FALSE,
     summary |-> prefix \o e,
     method |-> "Error",
     error |-> e,
     retrieved_at |-> Now]

StateError(prefix, e) ==
    [success |-> FALSE,
     summary |-> prefix \o e,
     method |-> "Error",
     state_info |-> <<>>,
     error |-> e,
     retrieved_at |-> Now]

\* Faulty variant of get_compute_instance_state: without a compute client it
\* turns to the CLI.
get_compute_instance_state_cli ==
    \E instance_id \in InstanceIdArgs :
      /\ pc = "idle"
      /\ call' = [name |-> "get_compute_instance_state",
                  args |-> [instance_id |-> instance_id]]
      /\ frame' = <<>>
      /\ IF Truthy(compute_client)
         THEN /\ Issue(get_instance_request(instance_id))
              /\ pc' = "get_compute_instance_state.get"
         ELSE /\ Issue(list_instances_cli_fallback_request(get_compartment_id,
                                                           "RUNNING"))
              /\ pc' = "get_compute_instance_state.cli"
      /\ UNCHANGED <<manager, environ, result>>

\* get_compute_instance_state, to its vendor request
get_compute_instance_state ==
    \E instance_id \in InstanceIdArgs :
      /\ pc = "idle"
      /\ call' = [name |-> "get_compute_instance_state",
                  args |-> [instance_id |-> instance_id]]
      /\ frame' = <<>>
      /\ IF Truthy(compute_client)
         THEN /\ Issue(get_instance_request(instance_id))
              /\ pc' = "get_compute_instance_state.get"
              /\ UNCHANGED result
         ELSE /\ Finish(StateError("Failed to get instance state: ",
                                   "Instance state check requires OCI SDK"))
              /\ UNCHANGED calls
      /\ UNCHANGED <<manager, environ>>

\* get_compute_instance_state, from the answer to get_instance
get_compute_instance_state_get ==
    /\ pc = "get_compute_instance_state.get"
    /\ Answered
    /\ LET r == get_instance_state_sdk_result(call.args.instance_id, LastAnswer)
       IN IF r.kind = "raise"
          THEN Finish(StateError("Failed to get instance state: ", r.error))
          ELSE Finish(StateResponse(
                        "Instance '" \o r.value.instance_name
                        \o "' is currently " \o r.value.lifecycle_state,
                        r.value))
    /\ UNCHANGED <<manager, environ, call, frame, calls>>

\* get_database_system_state, to its vendor request
get_database_system_state ==
    \E db_system_id \in DbSystemIdArgs :
      /\ pc = "idle"
      /\ call' = [name |-> "get_database_system_state",
                  args |-> [db_system_id |-> db_system_id]]
      /\ frame' = <<>>
      /\ IF Truthy(database_client)
         THEN /\ Issue(get_db_system_request(db_system_id))
              /\ pc' = "get_database_system_state.get"
              /\ UNCHANGED result
         ELSE /\ Finish(StateError("Failed to get database system state: ",
                                   "Database state check requires OCI SDK"))
              /\ UNCHANGED calls
      /\ UNCHANGED <<manager, environ>>

\* get_database_system_state, from the answer to get_db_system
get_database_system_state_get ==
    /\ pc = "get_database_system_state.get"
    /\ Answered
    /\ LET r == get_database_state_sdk_result(call.args.db_system_id, LastAnswer)
       IN IF r.kind = "raise"
          THEN Finish(StateError("Failed to get database system state: ", r.error))
          ELSE Finish(StateResponse(
                        "Database system '" \o r.value.db_system_name
                        \o "' is currently " \o r.value.lifecycle_state,
                        r.value))
    /\ UNCHANGED <<manager, environ, call, frame, calls>>

\* get_autonomous_database_state, to its vendor request
get_autonomous_database_state ==
    \E autonomous_database_id \in AutonomousDatabaseIdArgs :
      /\ pc = "idle"
      /\ call' = [name |-> "get_autonomous_database_state",
                  args |-> [autonomous_database_id |-> autonomous_database_id]]
      /\ frame' = <<>>
      /\ IF Truthy(database_client)
         THEN /\ Issue(get_autonomous_database_request(autonomous_database_id))
              /\ pc' = "get_autonomous_database_state.get"
              /\ UNCHANGED result
         ELSE /\ Finish(StateError("Failed to get autonomous database state: ",
                                   "Autonomous database state check requires OCI SDK"))
              /\ UNCHANGED calls
      /\ UNCHANGED <<manager, environ>>

\* get_autonomous_database_state, from the answer to get_autonomous_database
get_autonomous_database_state_get ==
    /\ pc = "get_autonomous_database_state.get"
    /\ Answered
    /\ LET r == get_autonomous_database_state_sdk_result(
                    call.args.autonomous_database_id, LastAnswer)
       IN IF r.kind = "raise"
          THEN Finish(StateError("Failed to get autonomous database state: ",
                                 r.error))
          ELSE Finish(StateResponse(
                        "Autonomous Database '" \o r.value.database_name
                        \o "' (" \o WorkloadName(r.value.db_workload)
                        \o ") is currently " \o r.value.lifecycle_state,
                        r.value))
    /\ UNCHANGED <<manager, environ, call, frame, calls>>

\* ---------------------------------------------- manager: database listing

\* list_databases_sdk: the request it sends
list_databases_sdk_request(compartment_id, lifecycle_state) ==
    Request("database.list_db_systems",
            IF Truthy(lifecycle_state)
            THEN [compartment_id |-> compartment_id,
                  lifecycle_state |-> lifecycle_state]
            ELSE [compartment_id |-> compartment_id])

\* list_databases_sdk: one element of the result
db_data(db_system) ==
    [id |-> db_system.id,
     display_name |-> db_system.display_name,
     shape |-> db_system.shape,
     lifecycle_state |-> db_system.lifecycle_state,
     availability_domain |-> db_system.availability_domain,
     compartment_id |-> db_system.compartment_id,
     time_created |-> IF Truthy(db_system.time_created)
                      THEN IsoFormat(db_system.time_created) ELSE None,
     database_edition |-> db_system.database_edition,
     version |-> db_system.version,
     node_count |-> db_system.node_count,
     cpu_core_count |-> db_system.cpu_core_count,
     data_storage_size_in_gbs |-> db_system.data_storage_size_in_gbs,
     hostname |-> db_system.hostname,
     domain |-> db_system.domain,
     tags |-> [freeform |-> Or(db_system.freeform_tags, EmptyDict),
               defined |-> Or(db_system.defined_tags, EmptyDict)]]

\* Faulty variant of list_databases_sdk_result: an empty listing is an error.
list_databases_sdk_result_rejects_empty(ans) ==
    IF ans.kind = "raise" THEN Raised(ans.error)
    ELSE IF ans.value = <<>> THEN Raised("No database systems found")
    ELSE Returned([i \in 1..Len(ans.value) |-> db_data(ans.value[i])])

\* list_databases_sdk: from the vendor's answer to its result
list_databases_sdk_result(ans) ==
    IF ans.kind = "raise" THEN Raised(ans.error)
    ELSE Returned([i \in 1..Len(ans.value) |-> db_data(ans.value[i])])

\* list_autonomous_databases_sdk: the request it sends
list_autonomous_databases_sdk_request(compartment_id, lifecycle_state, db_workload) ==
    Request("database.list_autonomous_databases",
            [x \in {"compartment_id"}
                   \cup (IF Truthy(lifecycle_state) THEN {"lifecycle_state"} ELSE {})
                   \cup (IF Truthy(db_workload) THEN {"db_workload"} ELSE {}) |->
               CASE x = "compartment_id" -> compartment_id
                 [] x = "lifecycle_state" -> lifecycle_state
                 [] x = "db_workload" -> db_workload])

\* list_autonomous_databases_sdk: one element of the result
adb_data(adb) ==
    [id |-> adb.id,
     display_name |-> adb.display_name,
     db_name |-> adb.db_name,
     lifecycle_state |-> adb.lifecycle_state,
     lifecycle_details |-> adb.lifecycle_details,
     db_workload |-> adb.db_workload,
     db_version |-> adb.db_version,
     compute_model |-> adb.compute_model,
     compute_count |-> adb.compute_count,
     cpu_core_count |-> adb.cpu_core_count,
     data_storage_size_in_tbs |-> adb.data_storage_size_in_tbs,
     data_storage_size_in_gbs |-> adb.data_storage_size_in_gbs,
     is_auto_scaling_enabled |-> adb.is_auto_scaling_enabled,
     is_auto_scaling_for_storage_enabled |-> adb.is_auto_scaling_for_storage_enabled,
     is_free_tier |-> adb.is_free_tier,
     license_model |-> adb.license_model,
     whitelisted_ips |-> IF Truthy(adb.whitelisted_ips)
                         THEN adb.whitelisted_ips ELSE "[]",
     time_created |-> IF Truthy(adb.time_created)
                      THEN IsoFormat(adb.time_created) ELSE None,
     compartment_id |-> adb.compartment_id,
     connection_urls |-> [sql_dev_web_url |-> adb.connection_urls.sql_dev_web_url,
                          apex_url |-> adb.connection_urls.apex_url,
                          graph_studio_url |-> adb.connection_urls.graph_studio_url,
                          mongo_db_url |-> adb.connection_urls.mongo_db_url,
                          ords_url |-> adb.connection_urls.ords_url],
     service_console_url |-> adb.service_console_url,
     is_refreshable_clone |-> adb.is_refreshable_clone,
     refreshable_status |-> adb.refreshable_status,
     refreshable_mode |-> adb.refreshable_mode,
     time_of_last_refresh |-> IF Truthy(adb.time_of_last_refresh)
                              THEN IsoFormat(adb.time_of_last_refresh) ELSE None,
     tags |-> [freeform |-> Or(adb.freeform_tags, EmptyDict),
               defined |-> Or(adb.defined_tags, EmptyDict)]]

\* list_autonomous_databases_sdk: from the vendor's answer to its result
list_autonomous_databases_sdk_result(ans) ==
    IF ans.kind = "raise" THEN Raised(ans.error)
    ELSE Returned([i \in 1..Len(ans.value) |-> adb_data(ans.value[i])])

\* get_autonomous_database_details_sdk: from the vendor's answer to its result
\* (the attributes the summary reads and the tags; the others are copied the
\* same way)
get_autonomous_database_details_sdk_result(ans) ==
    IF ans.kind = "raise" THEN Raised(ans.error)
    ELSE LET adb == ans.value
         IN Returned(
              [id |-> adb.id,
               display_name |-> adb.display_name,
               db_name |-> adb.db_name,
               lifecycle_state |-> adb.lifecycle_state,
               lifecycle_details |-> adb.lifecycle_details,
               db_workload |-> adb.db_workload,
               db_version |-> adb.db_version,
               character_set |-> adb.character_set,
               ncharacter_set |-> adb.ncharacter_set,
               compute_model |-> adb.compute_model,
               compute_count |-> adb.compute_count,
               cpu_core_count |-> adb.cpu_core_count,
               data_storage_size_in_tbs |-> adb.data_storage_size_in_tbs,
               data_storage_size_in_gbs |-> adb.data_storage_size_in_gbs,
               provisionable_cpus |-> IF Truthy(adb.provisionable_cpus)
                                      THEN adb.provisionable_cpus ELSE "[]",
               is_auto_scaling_enabled |-> adb.is_auto_scaling_enabled,
               is_auto_scaling_for_storage_enabled |->
                   adb.is_auto_scaling_for_storage_enabled,
               is_free_tier |-> adb.is_free_tier,
               license_model |-> adb.license_model,
               whitelisted_ips |-> IF Truthy(adb.whitelisted_ips)
                                   THEN adb.whitelisted_ips ELSE "[]",
               are_primary_whitelisted_ips_used |-> adb.are_primary_whitelisted_ips_used,
               connection_strings |-> DictOf(adb.connection_strings),
               connection_urls |-> adb.connection_urls,
               service_console_url |-> adb.service_console_url,
               time_created |-> IF Truthy(adb.time_created)
                                THEN IsoFormat(adb.time_created) ELSE None,
               compartment_id |-> adb.compartment_id,
               tags |-> [freeform |-> Or(adb.freeform_tags, EmptyDict),
                         defined |-> Or(adb.defined_tags, EmptyDict),
                         system |-> Or(adb.system_tags, EmptyDict)]])

\* ------------------------------------------------- tools: database listing

list_database_systems_response(databases, target_compartment, lifecycle_state) ==
    [success |-> TRUE,
     summary |-> "Found " \o ToString(Len(databases))
                 \o (IF Truthy(lifecycle_state)
                     THEN " " \o LowerState(lifecycle_state) ELSE "")
                 \o " database systems in "
                 \o ConfigGet(config, "region", "unknown region"),
     count |-> Len(databases),
     method |-> "OCI Python SDK",
     filters |-> [compartment_id |-> target_compartment,
                  lifecycle_state |-> lifecycle_state],
     database_systems |-> databases,
     retrieved_at |-> Now]

list_database_systems_error(e) ==
    [success |-> FALSE,
     summary |-> "Failed to list database systems: " \o e,
     count |-> 0,
     method |-> "Error",
     database_systems |-> <<>>,
     error |-> e,
     retrieved_at |-> Now]

\* list_database_systems, to its vendor request
list_database_systems ==
    \E compartment_id \in CompartmentArgs, lifecycle_state \in DatabaseStateArgs :
      LET target_compartment == Or(compartment_id, get_compartment_id)
      IN /\ pc = "idle"
         /\ call' = [name |-> "list_database_systems",
                     args |-> [compartment_id |-> compartment_id,
                               lifecycle_state |-> lifecycle_state]]
         /\ frame' = [target_compartment |-> target_compartment]
         /\ IF ~Truthy(target_compartment)
            THEN /\ Finish(list_database_systems_error("Compartment ID is required"))
                 /\ UNCHANGED calls
            ELSE IF Truthy(database_client)
            THEN /\ Issue(list_databases_sdk_request(target_compartment,
                                                     lifecycle_state))
                 /\ pc' = "list_database_systems.sdk"
                 /\ UNCHANGED result
            ELSE /\ Finish(list_database_systems_error(
                              "Database listing requires OCI SDK"))
                 /\ UNCHANGED calls
         /\ UNCHANGED <<manager, environ>>

\* list_database_systems, from the answer to list_db_systems
list_database_systems_sdk ==
    /\ pc = "list_database_systems.sdk"
    /\ Answered
    /\ LET r == list_databases_sdk_result(LastAnswer)
       IN IF r.kind = "raise"
          THEN Finish(list_database_systems_error(r.error))
          ELSE Finish(list_database_systems_response(
                        r.value, frame.target_compartment,
                        call.args.lifecycle_state))
    /\ UNCHANGED <<manager, environ, call, frame, calls>>

list_autonomous_databases_response(autonomous_dbs, target_compartment, lifecycle_state, db_workload) ==
    [success |-> TRUE,
     summary |-> "Found " \o ToString(Len(autonomous_dbs))
                 \o " autonomous databases"
                 \o (IF Truthy(lifecycle_state) /\ Truthy(db_workload)
                     THEN " (state: " \o lifecycle_state \o ", workload: "
                          \o db_workload \o ")"
                     ELSE IF Truthy(lifecycle_state)
                     THEN " (state: " \o lifecycle_state \o ")"
                     ELSE IF Truthy(db_workload)
                     THEN " (workload: " \o db_workload \o ")"
                     ELSE "")
                 \o " in " \o ConfigGet(config, "region", "unknown region"),
     count |-> Len(autonomous_dbs),
     method |-> "OCI Python SDK",
     filters |-> [compartment_id |-> target_compartment,
                  lifecycle_state |-> lifecycle_state,
                  db_workload |-> db_workload],
     autonomous_databases |-> autonomous_dbs,
     retrieved_at |-> Now]

list_autonomous_databases_error(e) ==
    [success |-> FALSE,
     summary |-> "Failed to list autonomous databases: " \o e,
     count |-> 0,
     method |-> "Error",
     autonomous_databases |-> <<>>,
     error |-> e,
     retrieved_at |-> Now]

\* list_autonomous_databases, to its vendor request
list_autonomous_databases ==
    \E compartment_id \in CompartmentArgs, lifecycle_state \in DatabaseStateArgs,
       db_workload \in WorkloadArgs :
      LET target_compartment == Or(compartment_id, get_compartment_id)
      IN /\ pc = "idle"
         /\ call' = [name |-> "list_autonomous_databases",
                     args |-> [compartment_id |-> compartment_id,
                               lifecycle_state |-> lifecycle_state,
                               db_workload |-> db_workload]]
         /\ frame' = [target_compartment |-> target_compartment]
         /\ IF ~Truthy(target_compartment)
            THEN /\ Finish(list_autonomous_databases_error(
                              "Compartment ID is required"))
                 /\ UNCHANGED calls
            ELSE IF Truthy(database_client)
            THEN /\ Issue(list_autonomous_databases_sdk_request(
                              target_compartment, lifecycle_state, db_workload))
                 /\ pc' = "list_autonomous_databases.sdk"
                 /\ UNCHANGED result
            ELSE /\ Finish(list_autonomous_databases_error(
                              "Autonomous database listing requires OCI SDK"))
                 /\ UNCHANGED calls
         /\ UNCHANGED <<manager, environ>>

\* list_autonomous_databases, from the answer to list_autonomous_databases
list_autonomous_databases_sdk ==
    /\ pc = "list_autonomous_databases.sdk"
    /\ Answered
    /\ LET r == list_autonomous_databases_sdk_result(LastAnswer)
       IN IF r.kind = "raise"
          THEN Finish(list_autonomous_databases_error(r.error))
          ELSE Finish(list_autonomous_databases_response(
                        r.value, frame.target_compartment,
                        call.args.lifecycle_state, call.args.db_workload))
    /\ UNCHANGED <<manager, environ, call, frame, calls>>

\* --------------------------------- tool: get_autonomous_database_details

get_autonomous_database_details_response(adb_details) ==
    [success |-> TRUE,
     summary |-> "Autonomous Database '" \o adb_details.display_name \o "' ("
                 \o WorkloadName(adb_details.db_workload) \o ") is "
                 \o LowerState(adb_details.lifecycle_state) \o " with "
                 \o (IF adb_details.compute_model = "ECPU"
                     THEN adb_details.compute_count \o " ECPUs"
                     ELSE adb_details.cpu_core_count \o " OCPUs")
                 \o " and " \o adb_details.data_storage_size_in_tbs
                 \o "TB storage",
     method |-> "OCI Python SDK",
     autonomous_database |-> adb_details,
     retrieved_at |-> Now]

get_autonomous_database_details_error(e) ==
    [success |-> FALSE,
     summary |-> "Failed to get autonomous database details: " \o e,
     method |-> "Error",
     autonomous_database |-> <<>>,
     error |-> e,
     retrieved_at |-> Now]

\* get_autonomous_database_details, to its vendor request
get_autonomous_database_details ==
    \E autonomous_database_id \in AutonomousDatabaseIdArgs :
      /\ pc = "idle"
      /\ call' = [name |-> "get_autonomous_database_details",
                  args |-> [autonomous_database_id |-> autonomous_database_id]]
      /\ frame' = <<>>
      /\ IF Truthy(database_client)
         THEN /\ Issue(get_autonomous_database_request(autonomous_database_id))
              /\ pc' = "get_autonomous_database_details.get"
              /\ UNCHANGED result
         ELSE /\ Finish(get_autonomous_database_details_error(
                           "Autonomous database details require OCI SDK"))
              /\ UNCHANGED calls
      /\ UNCHANGED <<manager, environ>>

\* get_autonomous_database_details, from the answer to get_autonomous_database
get_autonomous_database_details_get ==
    /\ pc = "get_autonomous_database_details.get"
    /\ Answered
    /\ LET r == get_autonomous_database_details_sdk_result(LastAnswer)
       IN IF r.kind = "raise"
          THEN Finish(get_autonomous_database_details_error(r.error))
          ELSE Finish(get_autonomous_database_details_response(r.value))
    /\ UNCHANGED <<manager, environ, call, frame, calls>>

\* --------------------------------------------- manager: lifecycle actions

START == <<"S", "T", "A", "R", "T">>
STOP == <<"S", "T", "O", "P">>
SOFTRESET == <<"S", "O", "F", "T", "R", "E", "S", "E", "T">>
RESET == <<"R", "E", "S", "E", "T">>
SOFTSTOP == <<"S", "O", "F", "T", "S", "T", "O", "P">>
RESTART == <<"R", "E", "S", "T", "A", "R", "T">>

RECURSIVE Text(_)
\* The string whose characters are s.
Text(s) == IF s = <<>> THEN "" ELSE Head(s) \o Text(Tail(s))

\* The action names a caller of the manager may pass.
ActionNames ==
    {START, STOP, SOFTRESET, RESET, SOFTSTOP, RESTART,
     <<"s", "t", "a", "r", "t">>, <<"S", "t", "o", "p">>,
     <<"r", "e", "s", "t", "a", "r", "t">>, <<"r", "e", "b", "o", "o", "t">>,
     <<"I", "N", "V", "A", "L", "I", "D", "_", "A", "C", "T", "I", "O", "N">>}

\* instance_action_sdk: valid_actions
instance_valid_actions == {START, STOP, SOFTRESET, RESET, SOFTSTOP}

\* Faulty variant of instance_action_sdk_check: the action is not validated.
instance_action_sdk_check_unvalidated(action) ==
    IF ~Truthy(compute_client) THEN Raised("OCI SDK not available")
    ELSE Returned(None)

\* instance_action_sdk: the checks made before the try block
instance_action_sdk_check(action) ==
    IF ~Truthy(compute_client) THEN Raised("OCI SDK not available")
    ELSE IF Upper(action) \notin instance_valid_actions
    THEN Raised("Invalid action '" \o Text(action)
                \o "'. Valid actions: START, STOP, SOFTRESET, RESET, SOFTSTOP")
    ELSE Returned(None)

\* Faulty variant of instance_action_request: the action goes to the vendor as
\* the caller wrote it.
instance_action_request_as_given(instance_id, action) ==
    Request("compute.instance_action",
            [instance_id |-> instance_id, action |-> action])

\* instance_action_sdk: the action request
instance_action_request(instance_id, action) ==
    Request("compute.instance_action",
            [instance_id |-> instance_id, action |-> Upper(action)])

\* instance_action_sdk: action_result
instance_action_sdk_result(instance_id, action, instance, response) ==
    [instance_id |-> instance_id,
     instance_name |-> instance.display_name,
     action |-> Upper(action),
     previous_state |-> instance.lifecycle_state,
     work_request_id |-> DictGet(response.headers, "opc-work-request-id", None),
     request_id |-> DictGet(response.headers, "opc-request-id", None),
     initiated_at |-> Now]

\* database_action_sdk: valid_actions
database_valid_actions == {START, STOP}

\* database_action_sdk: the checks made before the try block
database_action_sdk_check(action) ==
    IF ~Truthy(database_client) THEN Raised("OCI Database SDK not available")
    ELSE IF Upper(action) \notin database_valid_actions
    THEN Raised("Invalid database action '" \o Text(action)
                \o "'. Valid actions: START, STOP")
    ELSE Returned(None)

\* database_action_sdk: the action request
database_action_request(db_system_id, action) ==
    Request(IF Upper(action) = START THEN "database.start_db_system"
            ELSE "database.stop_db_system",
            [db_system_id |-> db_system_id])

\* database_action_sdk: action_result
database_action_sdk_result(db_system_id, action, db_system, response) ==
    [db_system_id |-> db_system_id,
     db_system_name |-> db_system.display_name,
     action |-> Upper(action),
     previous_state |-> db_system.lifecycle_state,
     work_request_id |-> DictGet(response.headers, "opc-work-request-id", None),
     request_id |-> DictGet(response.headers, "opc-request-id", None),
     initiated_at |-> Now]

\* autonomous_database_action_sdk: valid_actions
autonomous_database_valid_actions == {START, STOP, RESTART}

\* autonomous_database_action_sdk: the checks made before the try block
autonomous_database_action_sdk_check(action) ==
    IF ~Truthy(database_client) THEN Raised("OCI Database SDK not available")
    ELSE IF Upper(action) \notin autonomous_database_valid_actions
    THEN Raised("Invalid autonomous database action '" \o Text(action)
                \o "'. Valid actions: START, STOP, RESTART")
    ELSE Returned(None)

\* autonomous_database_action_sdk: the action request
autonomous_database_action_request(autonomous_database_id, action) ==
    Request(IF Upper(action) = START THEN "database.start_autonomous_database"
            ELSE IF Upper(action) = STOP THEN "database.stop_autonomous_database"
            ELSE "database.restart_autonomous_database",
            [autonomous_database_id |-> autonomous_database_id])

\* autonomous_database_action_sdk: action_result
autonomous_database_action_sdk_result(autonomous_database_id, action, adb, response) ==
    [autonomous_database_id |-> autonomous_database_id,
     database_name |-> adb.display_name,
     db_name |-> adb.db_name,
     action |-> Upper(action),
     previous_state |-> adb.lifecycle_state,
     work_request_id |-> DictGet(response.headers, "opc-work-request-id", None),
     request_id |-> DictGet(response.headers, "opc-request-id", None),
     initiated_at |-> Now]

\* ------------------------------------------------ tools: lifecycle actions

ManagerMethods ==
    {"instance_action_sdk", "database_action_sdk", "autonomous_database_action_sdk"}

\* A lifecycle tool's success response; `name` is the resource's name in
\* action_result.
ActionResponse(initiated, name, action_result) ==
    [success |-> TRUE,
     summary |-> initiated \o " '" \o name \o "' (was "
                 \o action_result.previous_state \o ")"
                 \o (IF Truthy(action_result.work_request_id)
                     THEN " - Work Request: " \o action_result.work_request_id
                     ELSE ""),
     method |-> "OCI Python SDK",
     action_details |-> action_result,
     initiated_at |-> Now]

ActionError(failed, e) ==
    [success |-> FALSE,
     summary |-> failed \o e,
     method |-> "Error",
     action_details |-> <<>>,
     error |-> e,
     initiated_at |-> Now]

\* The manager method is over with outcome r: called directly, r goes to the
\* caller; called by a tool, the tool turns r into its response.
ActionEnds(name, texts, r) ==
    IF name \in ManagerMethods
    THEN pc' = "done" /\ result' = r
    ELSE IF r.kind = "ok"
    THEN Finish(ActionResponse(texts.initiated, r.value[texts.name_field], r.value))
    ELSE Finish(ActionError(texts.failed, r.error))

\* A lifecycle tool or manager method, to its first vendor request.
BeginAction(name, args, id, action, texts, tool_check, check, get_request, label) ==
    /\ pc = "idle"
    /\ call' = [name |-> name, args |-> args]
    /\ frame' = [id |-> id, action |-> action, texts |-> texts]
    /\ LET c == IF tool_check.kind = "raise" THEN tool_check ELSE check
       IN IF c.kind = "raise"
          THEN ActionEnds(name, texts, c) /\ UNCHANGED calls
          ELSE Issue(get_request) /\ pc' = label /\ UNCHANGED result
    /\ UNCHANGED <<manager, environ>>

Requires(client, message) ==
    IF Truthy(client) THEN Returned(None) ELSE Raised(message)

DirectTexts == [initiated |-> "", failed |-> "", name_field |-> ""]

\* instance_action_sdk, called directly
instance_action_sdk ==
    \E instance_id \in InstanceIdArgs, action \in ActionNames :
      BeginAction("instance_action_sdk",
                  [instance_id |-> instance_id, action |-> action],
                  instance_id, action, DirectTexts, Returned(None),
                  instance_action_sdk_check(action),
                  get_instance_request(instance_id), "instance_action_sdk.get")

start_compute_instance ==
    \E instance_id \in InstanceIdArgs, compartment_id \in CompartmentArgs :
      BeginAction("start_compute_instance",
                  [instance_id |-> instance_id, compartment_id |-> compartment_id],
                  instance_id, START,
                  [initiated |-> "Start action initiated for instance",
                   failed |-> "Failed to start instance: ",
                   name_field |-> "instance_name"],
                  Requires(compute_client, "Instance lifecycle actions require OCI SDK"),
                  instance_action_sdk_check(START),
                  get_instance_request(instance_id), "instance_action_sdk.get")

\* Faulty variant of stop_compute_instance: the soft_stop flag is read the
\* wrong way round.
stop_compute_instance_swapped ==
    \E instance_id \in InstanceIdArgs, compartment_id \in CompartmentArgs,
       soft_stop \in BOOLEAN :
      LET action == IF soft_stop THEN STOP ELSE SOFTSTOP
      IN BeginAction("stop_compute_instance",
                     [instance_id |-> instance_id, compartment_id |-> compartment_id,
                      soft_stop |-> soft_stop],
                     instance_id, action,
                     [initiated |-> (IF soft_stop THEN "Graceful" ELSE "Forced")
                                    \o " stop action initiated for instance",
                      failed |-> "Failed to stop instance: ",
                      name_field |-> "instance_name"],
                     Requires(compute_client,
                              "Instance lifecycle actions require OCI SDK"),
                     instance_action_sdk_check(action),
                     get_instance_request(instance_id), "instance_action_sdk.get")

stop_compute_instance ==
    \E instance_id \in InstanceIdArgs, compartment_id \in CompartmentArgs,
       soft_stop \in BOOLEAN :
      LET action == IF soft_stop THEN SOFTSTOP ELSE STOP
      IN BeginAction("stop_compute_instance",
                     [instance_id |-> instance_id, compartment_id |-> compartment_id,
                      soft_stop |-> soft_stop],
                     instance_id, action,
                     [initiated |-> (IF soft_stop THEN "Graceful" ELSE "Forced")
                                    \o " stop action initiated for instance",
                      failed |-> "Failed to stop instance: ",
                      name_field |-> "instance_name"],
                     Requires(compute_client,
                              "Instance lifecycle actions require OCI SDK"),
                     instance_action_sdk_check(action),
                     get_instance_request(instance_id), "instance_action_sdk.get")

restart_compute_instance ==
    \E instance_id \in InstanceIdArgs, compartment_id \in CompartmentArgs,
       soft_restart \in BOOLEAN :
      LET action == IF soft_restart THEN SOFTRESET ELSE RESET
      IN BeginAction("restart_compute_instance",
                     [instance_id |-> instance_id, compartment_id |-> compartment_id,
                      soft_restart |-> soft_restart],
                     instance_id, action,
                     [initiated |-> (IF soft_restart THEN "Graceful" ELSE "Forced")
                                    \o " restart action initiated for instance",
                      failed |-> "Failed to restart instance: ",
                      name_field |-> "instance_name"],
                     Requires(compute_client,
                              "Instance lifecycle actions require OCI SDK"),
                     instance_action_sdk_check(action),
                     get_instance_request(instance_id), "instance_action_sdk.get")

\* instance_action_sdk, from the answer to get_instance
instance_action_sdk_get ==
    /\ pc = "instance_action_sdk.get"
    /\ Answered
    /\ IF LastAnswer.kind = "raise"
       THEN /\ ActionEnds(call.name, frame.texts, Raised(LastAnswer.error))
            /\ UNCHANGED <<frame, calls>>
       ELSE /\ Issue(instance_action_request(frame.id, frame.action))
            /\ frame' = [resource |-> LastAnswer.value] @@ frame
            /\ pc' = "instance_action_sdk.action"
            /\ UNCHANGED result
    /\ UNCHANGED <<manager, environ, call>>

\* Faulty variant of instance_action_sdk_action: a refused action request is
\* swallowed.
instance_action_sdk_action_swallows ==
    /\ pc = "instance_action_sdk.action"
    /\ Answered
    /\ ActionEnds(call.name, frame.texts,
                  Returned(instance_action_sdk_result(
                             frame.id, frame.action, frame.resource,
                             IF LastAnswer.kind = "raise" THEN [headers |-> <<>>]
                             ELSE LastAnswer.value)))
    /\ UNCHANGED <<manager, environ, call, frame, calls>>

\* instance_action_sdk, from the answer to instance_action
instance_action_sdk_action ==
    /\ pc = "instance_action_sdk.action"
    /\ Answered
    /\ ActionEnds(call.name, frame.texts,
                  IF LastAnswer.kind = "raise" THEN Raised(LastAnswer.error)
                  ELSE Returned(instance_action_sdk_result(
                                  frame.id, frame.action, frame.resource,
                                  LastAnswer.value)))
    /\ UNCHANGED <<manager, environ, call, frame, calls>>

\* database_action_sdk, called directly
database_action_sdk ==
    \E db_system_id \in DbSystemIdArgs, action \in ActionNames :
      BeginAction("database_action_sdk",
                  [db_system_id |-> db_system_id, action |-> action],
                  db_system_id, action, DirectTexts, Returned(None),
                  database_action_sdk_check(action),
                  get_db_system_request(db_system_id), "database_action_sdk.get")

start_database_system ==
    \E db_system_id \in DbSystemIdArgs :
      BeginAction("start_database_system", [db_system_id |-> db_system_id],
                  db_system_id, START,
                  [initiated |-> "Start action initiated for database system",
                   failed |-> "Failed to start database system: ",
                   name_field |-> "db_system_name"],
                  Requires(database_client, "Database lifecycle actions require OCI SDK"),
                  database_action_sdk_check(START),
                  get_db_system_request(db_system_id), "database_action_sdk.get")

\* Faulty variant of stop_database_system: it asks for the graceful stop that
\* only instances have.
stop_database_system_soft ==
    \E db_system_id \in DbSystemIdArgs :
      BeginAction("stop_database_system", [db_system_id |-> db_system_id],
                  db_system_id, SOFTSTOP,
                  [initiated |-> "Stop action initiated for database system",
                   failed |-> "Failed to stop database system: ",
                   name_field |-> "db_system_name"],
                  Requires(database_client, "Database lifecycle actions require OCI SDK"),
                  database_action_sdk_check(SOFTSTOP),
                  get_db_system_request(db_system_id), "database_action_sdk.get")

stop_database_system ==
    \E db_system_id \in DbSystemIdArgs :
      BeginAction("stop_database_system", [db_system_id |-> db_system_id],
                  db_system_id, STOP,
                  [initiated |-> "Stop action initiated for database system",
                   failed |-> "Failed to stop database system: ",
                   name_field |-> "db_system_name"],
                  Requires(database_client, "Database lifecycle actions require OCI SDK"),
                  database_action_sdk_check(STOP),
                  get_db_system_request(db_system_id), "database_action_sdk.get")

\* Faulty variant of database_action_sdk_get: a failed read of the database
\* system does not stop the action.
database_action_sdk_get_acts_anyway ==
    /\ pc = "database_action_sdk.get"
    /\ Answered
    /\ Issue(database_action_request(frame.id, frame.action))
    /\ frame' = [resource |-> IF LastAnswer.kind = "raise"
                              THEN [display_name |-> "unknown",
                                    lifecycle_state |-> "UNKNOWN"]
                              ELSE LastAnswer.value] @@ frame
    /\ pc' = "database_action_sdk.action"
    /\ UNCHANGED <<manager, environ, call, result>>

\* database_action_sdk, from the answer to get_db_system
database_action_sdk_get ==
    /\ pc = "database_action_sdk.get"
    /\ Answered
    /\ IF LastAnswer.kind = "raise"
       THEN /\ ActionEnds(call.name, frame.texts, Raised(LastAnswer.error))
            /\ UNCHANGED <<frame, calls>>
       ELSE /\ Issue(database_action_request(frame.id, frame.action))
            /\ frame' = [resource |-> LastAnswer.value] @@ frame
            /\ pc' = "database_action_sdk.action"
            /\ UNCHANGED result
    /\ UNCHANGED <<manager, environ, call>>

\* database_action_sdk, from the answer to start_db_system or stop_db_system
database_action_sdk_action ==
    /\ pc = "database_action_sdk.action"
    /\ Answered
    /\ ActionEnds(call.name, frame.texts,
                  IF LastAnswer.kind = "raise" THEN Raised(LastAnswer.error)
                  ELSE Returned(database_action_sdk_result(
                                  frame.id, frame.action, frame.resource,
                                  LastAnswer.value)))
    /\ UNCHANGED <<manager, environ, call, frame, calls>>

\* autonomous_database_action_sdk, called directly
autonomous_database_action_sdk ==
    \E autonomous_database_id \in AutonomousDatabaseIdArgs, action \in ActionNames :
      BeginAction("autonomous_database_action_sdk",
                  [autonomous_database_id |-> autonomous_database_id,
                   action |-> action],
                  autonomous_database_id, action, DirectTexts, Returned(None),
                  autonomous_database_action_sdk_check(action),
                  get_autonomous_database_request(autonomous_database_id),
                  "autonomous_database_action_sdk.get")

AutonomousTool(name, action, initiated, failed) ==
    \E autonomous_database_id \in AutonomousDatabaseIdArgs :
      BeginAction(name, [autonomous_database_id |-> autonomous_database_id],
                  autonomous_database_id, action,
                  [initiated |-> initiated, failed |-> failed,
                   name_field |-> "database_name"],
                  Requires(database_client,
                           "Autonomous database lifecycle actions require OCI SDK"),
                  autonomous_database_action_sdk_check(action),
                  get_autonomous_database_request(autonomous_database_id),
                  "autonomous_database_action_sdk.get")

start_autonomous_database ==
    AutonomousTool("start_autonomous_database", START,
                   "Start action initiated for autonomous database",
                   "Failed to start autonomous database: ")

stop_autonomous_database ==
    AutonomousTool("stop_autonomous_database", STOP,
                   "Stop action initiated for autonomous database",
                   "Failed to stop autonomous database: ")

restart_autonomous_database ==
    AutonomousTool("restart_autonomous_database", RESTART,
                   "Restart action initiated for autonomous database",
                   "Failed to restart autonomous database: ")

\* autonomous_database_action_sdk, from the answer to get_autonomous_database
autonomous_database_action_sdk_get ==
    /\ pc = "autonomous_database_action_sdk.get"
    /\ Answered
    /\ IF LastAnswer.kind = "raise"
       THEN /\ ActionEnds(call.name, frame.texts, Raised(LastAnswer.error))
            /\ UNCHANGED <<frame, calls>>
       ELSE /\ Issue(autonomous_database_action_request(frame.id, frame.action))
            /\ frame' = [resource |-> LastAnswer.value] @@ frame
            /\ pc' = "autonomous_database_action_sdk.action"
            /\ UNCHANGED result
    /\ UNCHANGED <<manager, environ, call>>

\* autonomous_database_action_sdk, from the answer to the action request
autonomous_database_action_sdk_action ==
    /\ pc = "autonomous_database_action_sdk.action"
    /\ Answered
    /\ ActionEnds(call.name, frame.texts,
                  IF LastAnswer.kind = "raise" THEN Raised(LastAnswer.error)
                  ELSE Returned(autonomous_database_action_sdk_result(
                                  frame.id, frame.action, frame.resource,
                                  LastAnswer.value)))
    /\ UNCHANGED <<manager, environ, call, frame, calls>>

\* ------------------------------------------- scale_autonomous_database

ScaleKeys ==
    <<"compute_count", "cpu_core_count", "data_storage_size_in_tbs",
      "is_auto_scaling_enabled", "is_auto_scaling_for_storage_enabled">>

\* The scaling arguments a caller may pass.
ScaleArgs ==
    [compute_count : {None, "4"},
     cpu_core_count : {None, "2"},
     data_storage_size_in_tbs : {None, "2"},
     is_auto_scaling_enabled : {None, PyTrue, PyFalse},
     is_auto_scaling_for_storage_enabled : {None, PyFalse}]

\* Faulty variant of scale_params_of: an argument is kept when it is truthy,
\* so a False flag is lost.
scale_params_of_truthy(args) ==
    [k \in {k \in DOMAIN args : Truthy(args[k])} |-> args[k]]

\* scale_autonomous_database: scale_params, the arguments that are not None
scale_params_of(args) ==
    [k \in {k \in DOMAIN args : args[k] # None} |-> args[k]]

\* scale_autonomous_database_sdk: the text appended to `changes` for one key
ChangeText(k, v) ==
    CASE k = "compute_count" -> "ECPU: " \o v
      [] k = "cpu_core_count" -> "OCPU: " \o v
      [] k = "data_storage_size_in_tbs" -> "Storage: " \o v \o "TB"
      [] k = "is_auto_scaling_enabled" ->
            "Auto-scaling: " \o (IF Truthy(v) THEN "enabled" ELSE "disabled")
      [] k = "is_auto_scaling_for_storage_enabled" ->
            "Storage auto-scaling: " \o (IF Truthy(v) THEN "enabled" ELSE "disabled")

RECURSIVE scale_changes(_, _)
\* scale_autonomous_database_sdk: changes, built key by key
scale_changes(scale_params, keys) ==
    IF keys = <<>> THEN <<>>
    ELSE LET k == Head(keys)
         IN (IF k \in DOMAIN scale_params /\ scale_params[k] # None
             THEN <<ChangeText(k, scale_params[k])>> ELSE <<>>)
            \o scale_changes(scale_params, Tail(keys))

\* scale_autonomous_database_sdk: update_details, the attributes it sets
update_details_of(scale_params) ==
    [k \in {k \in DOMAIN scale_params : scale_params[k] # None} |-> scale_params[k]]

update_autonomous_database_request(autonomous_database_id, scale_params) ==
    Request("database.update_autonomous_database",
            [autonomous_database_id |-> autonomous_database_id,
             update_autonomous_database_details |-> update_details_of(scale_params)])

\* scale_autonomous_database_sdk: action_result
scale_autonomous_database_sdk_result(autonomous_database_id, adb, changes, response) ==
    [autonomous_database_id |-> autonomous_database_id,
     database_name |-> adb.display_name,
     db_name |-> adb.db_name,
     action |-> "SCALE",
     changes |-> changes,
     work_request_id |-> DictGet(response.headers, "opc-work-request-id", None),
     request_id |-> DictGet(response.headers, "opc-request-id", None),
     initiated_at |-> Now]

RECURSIVE Join(_, _)
\* sep.join(strings)
Join(strings, sep) ==
    IF strings = <<>> THEN ""
    ELSE IF Len(strings) = 1 THEN strings[1]
    ELSE strings[1] \o sep \o Join(Tail(strings), sep)

scale_autonomous_database_response(action_result) ==
    [success |-> TRUE,
     summary |-> "Scaling action initiated for autonomous database '"
                 \o action_result.database_name \o "': "
                 \o Join(action_result.changes, ", ")
                 \o (IF Truthy(action_result.work_request_id)
                     THEN " - Work Request: " \o action_result.work_request_id
                     ELSE ""),
     method |-> "OCI Python SDK",
     action_details |-> action_result,
     initiated_at |-> Now]

scale_autonomous_database_error(e) ==
    ActionError("Failed to scale autonomous database: ", e)

\* The tool is invoked; with a database client it asks for the database.
scale_autonomous_database ==
    /\ pc = "idle"
    /\ \E autonomous_database_id \in AutonomousDatabaseIdArgs, args \in ScaleArgs :
          /\ call' = [name |-> "scale_autonomous_database",
                      args |-> [autonomous_database_id |-> autonomous_database_id]
                               @@ args]
          /\ frame' = [id |-> autonomous_database_id,
                       scale_params |-> scale_params_of(args)]
          /\ IF Truthy(database_client)
             THEN /\ Issue(get_autonomous_database_request(autonomous_database_id))
                  /\ pc' = "scale_autonomous_database_sdk.get"
                  /\ UNCHANGED result
             ELSE /\ Finish(scale_autonomous_database_error(
                              "Autonomous database scaling requires OCI SDK"))
                  /\ UNCHANGED calls
    /\ UNCHANGED <<manager, environ>>

\* scale_autonomous_database_sdk, from the answer to get_autonomous_database
scale_autonomous_database_sdk_get ==
    /\ pc = "scale_autonomous_database_sdk.get"
    /\ Answered
    /\ LET changes == scale_changes(frame.scale_params, ScaleKeys)
       IN IF LastAnswer.kind = "raise"
          THEN /\ Finish(scale_autonomous_database_error(LastAnswer.error))
               /\ UNCHANGED <<frame, calls>>
          ELSE IF changes = <<>>
          THEN /\ Finish(scale_autonomous_database_error(
                           "No scaling parameters provided"))
               /\ UNCHANGED <<frame, calls>>
          ELSE /\ Issue(update_autonomous_database_request(
                          frame.id, frame.scale_params))
               /\ frame' = [adb |-> LastAnswer.value, changes |-> changes] @@ frame
               /\ pc' = "scale_autonomous_database_sdk.update"
               /\ UNCHANGED result
    /\ UNCHANGED <<manager, environ, call>>

\* scale_autonomous_database_sdk, from the answer to update_autonomous_database
scale_autonomous_database_sdk_update ==
    /\ pc = "scale_autonomous_database_sdk.update"
    /\ Answered
    /\ IF LastAnswer.kind = "raise"
       THEN Finish(scale_autonomous_database_error(LastAnswer.error))
       ELSE Finish(scale_autonomous_database_response(
                     scale_autonomous_database_sdk_result(
                       frame.id, frame.adb, frame.changes, LastAnswer.value)))
    /\ UNCHANGED <<manager, environ, call, frame, calls>>

\* ---------------------------------------- test_core_services_connection

\* s[:20] of the tenancy the configuration file can hold.
First20(s) ==
    CASE s = "ocid1.tenancy.oc1..root" -> "ocid1.tenancy.oc1..r"
      [] s = "" -> ""

sdk_config_test ==
    IF Truthy(config)
    THEN [status |-> "success",
          message |-> "OCI SDK configuration loaded",
          region |-> ConfigGet(config, "region", "unknown"),
          tenancy_preview |-> First20(ConfigGet(config, "tenancy", "")) \o "..."]
    ELSE [status |-> "failed",
          message |-> "OCI SDK configuration not available"]

network_service_test ==
    IF Truthy(network_client)
    THEN [status |-> "success", message |-> "Virtual Network client available"]
    ELSE [status |-> "failed", message |-> "Virtual Network client not available"]

\* One listing test's entry once its listing is over (or was not made):
\* `listing` is the manager method's outcome.  The errors of the model are
\* shorter than the 100 characters the message keeps.
ServiceTest(service, found, things, count_field, listing) ==
    IF listing.kind = "raise"
    THEN [status |-> "failed",
          message |-> service \o " service test failed: " \o listing.error \o "..."]
    ELSE (count_field :> Len(listing.value))
         @@ [status |-> "success",
             message |-> service \o " service accessible - " \o found
                         \o ToString(Len(listing.value)) \o " " \o things]

\* One listing test's entry when no listing is made.
ServiceUntested(service, client) ==
    IF Truthy(client)
    THEN [status |-> "warning",
          message |-> service \o " client available but no compartment ID configured"]
    ELSE [status |-> "failed", message |-> service \o " client not available"]

\* Faulty variant of connection_results: the failures are counted among the
\* service tests, the configuration test left out.
connection_results_services_only(tests) ==
    LET failed_tests == {t \in DOMAIN tests \ {"sdk_config"} :
                           tests[t].status = "failed"}
    IN IF failed_tests = {}
       THEN [success |-> TRUE,
             summary |-> "All OCI Core Services accessible",
             timestamp |-> Now,
             tests |-> tests]
       ELSE [success |-> FALSE,
             summary |-> ToString(Cardinality(failed_tests)) \o " out of "
                         \o ToString(Cardinality(DOMAIN tests)) \o " tests failed",
             timestamp |-> Now,
             tests |-> tests]

\* Overall status
connection_results(tests) ==
    LET failed_tests == {t \in DOMAIN tests : tests[t].status = "failed"}
    IN IF failed_tests = {}
       THEN [success |-> TRUE,
             summary |-> "All OCI Core Services accessible",
             timestamp |-> Now,
             tests |-> tests]
       ELSE [success |-> FALSE,
             summary |-> ToString(Cardinality(failed_tests)) \o " out of "
                         \o ToString(Cardinality(DOMAIN tests)) \o " tests failed",
             timestamp |-> Now,
             tests |-> tests]

\* The autonomous database test, the last one; `tests` holds the four before.
test_autonomous_database_service(tests) ==
    IF Truthy(database_client) /\ Truthy(get_compartment_id)
    THEN /\ Issue(list_autonomous_databases_sdk_request(get_compartment_id, None, None))
         /\ frame' = [tests |-> tests]
         /\ pc' = "test_core_services_connection.autonomous_database_service"
         /\ UNCHANGED result
    ELSE LET all == ("autonomous_database_service" :>
                       ServiceUntested("Autonomous Database", database_client))
                    @@ tests
         IN /\ Finish(connection_results(all))
            /\ frame' = [tests |-> all]
            /\ UNCHANGED calls

\* The database test and what follows; `tests` holds the three before.
test_database_service(tests) ==
    IF Truthy(database_client) /\ Truthy(get_compartment_id)
    THEN /\ Issue(list_databases_sdk_request(get_compartment_id, None))
         /\ frame' = [tests |-> tests]
         /\ pc' = "test_core_services_connection.database_service"
         /\ UNCHANGED result
    ELSE test_autonomous_database_service(
           ("database_service" :> ServiceUntested("Database", database_client))
           @@ tests)

\* The tool is invoked: the configuration test, then the compute test.
test_core_services_connection ==
    /\ pc = "idle"
    /\ call' = [name |-> "test_core_services_connection", args |-> <<>>]
    /\ LET tests == [sdk_config |-> sdk_config_test]
       IN IF Truthy(compute_client) /\ Truthy(get_compartment_id)
          THEN /\ Issue(list_instances_sdk_request(get_compartment_id, "RUNNING"))
               /\ frame' = [tests |-> tests]
               /\ pc' = "test_core_services_connection.compute_service"
               /\ UNCHANGED result
          ELSE test_database_service(
                 [compute_service |-> ServiceUntested("Compute", compute_client),
                  network_service |-> network_service_test] @@ tests)
    /\ UNCHANGED <<manager, environ>>

\* From the answer to the compute listing.
test_core_services_connection_compute ==
    /\ pc = "test_core_services_connection.compute_service"
    /\ Answered
    /\ test_database_service(
          [compute_service |->
               ServiceTest("Compute", "found ", "running instances",
                           "instance_count", list_instances_sdk_result(LastAnswer)),
           network_service |-> network_service_test] @@ frame.tests)
    /\ UNCHANGED <<manager, environ, call>>

\* From the answer to the database system listing.
test_core_services_connection_database ==
    /\ pc = "test_core_services_connection.database_service"
    /\ Answered
    /\ test_autonomous_database_service(
          ("database_service" :>
               ServiceTest("Database", "found ", "database systems",
                           "database_count", list_databases_sdk_result(LastAnswer)))
          @@ frame.tests)
    /\ UNCHANGED <<manager, environ, call>>

\* From the answer to the autonomous database listing.
test_core_services_connection_autonomous ==
    /\ pc = "test_core_services_connection.autonomous_database_service"
    /\ Answered
    /\ LET all == ("autonomous_database_service" :>
                       ServiceTest("Autonomous Database", "found ",
                                   "autonomous databases", "autonomous_db_count",
                                   list_autonomous_databases_sdk_result(LastAnswer)))
                  @@ frame.tests
       IN /\ Finish(connection_results(all))
          /\ frame' = [tests |-> all]
    /\ UNCHANGED <<manager, environ, call, calls>>

\* ------------------------------------------------------------ the system

Next ==
    \/ Vendor
    \/ NextInvocation
    \/ list_compute_instances
    \/ list_compute_instances_sdk
    \/ list_compute_instances_cli
    \/ get_instance_details
    \/ get_instance_details_get
    \/ list_instances_with_network
    \/ list_instances_with_network_sdk
    \/ list_instances_with_network_cli
    \/ get_instance_network_info_sdk_attachments
    \/ get_instance_network_info_sdk_vnic
    \/ get_compute_instance_state
    \/ get_compute_instance_state_get
    \/ get_database_system_state
    \/ get_database_system_state_get
    \/ get_autonomous_database_state
    \/ get_autonomous_database_state_get
    \/ list_database_systems
    \/ list_database_systems_sdk
    \/ list_autonomous_databases
    \/ list_autonomous_databases_sdk
    \/ get_autonomous_database_details
    \/ get_autonomous_database_details_get
    \/ instance_action_sdk
    \/ start_compute_instance
    \/ stop_compute_instance
    \/ restart_compute_instance
    \/ instance_action_sdk_get
    \/ instance_action_sdk_action
    \/ database_action_sdk
    \/ start_database_system
    \/ stop_database_system
    \/ database_action_sdk_get
    \/ database_action_sdk_action
    \/ autonomous_database_action_sdk
    \/ start_autonomous_database
    \/ stop_autonomous_database
    \/ restart_autonomous_database
    \/ autonomous_database_action_sdk_get
    \/ autonomous_database_action_sdk_action
    \/ scale_autonomous_database
    \/ scale_autonomous_database_sdk_get
    \/ scale_autonomous_database_sdk_update
    \/ test_core_services_connection
    \/ test_core_services_connection_compute
    \/ test_core_services_connection_database
    \/ test_core_services_connection_autonomous

Spec == Init /\ [][Next]_vars

\* ------------------------------------------------------------ properties

ListingTools ==
    {"list_compute_instances", "list_instances_with_network",
     "list_database_systems", "list_autonomous_databases"}

StateTools ==
    {"get_compute_instance_state", "get_database_system_state",
     "get_autonomous_database_state"}

ActionTools ==
    {"start_compute_instance", "stop_compute_instance", "restart_compute_instance",
     "start_database_system", "stop_database_system",
     "start_autonomous_database", "stop_autonomous_database",
     "restart_autonomous_database", "scale_autonomous_database"}

ActionApis ==
    {"compute.instance_action", "database.start_db_system",
     "database.stop_db_system", "database.start_autonomous_database",
     "database.stop_autonomous_database", "database.restart_autonomous_database",
     "database.update_autonomous_database"}

SdkListingApis ==
    {"compute.list_instances", "database.list_db_systems",
     "database.list_autonomous_databases"}

\* The requests of the current invocation sent to one of `apis`.
CallsTo(apis) == {i \in DOMAIN calls : calls[i].req.api \in apis}

\* The invocation of `tool` has returned.
Done(tool) == pc = "done" /\ call.name = tool

\* The CLI subprocess of the current invocation failed: it could not be run,
\* exited non-zero, or printed text that is not JSON.
CliFailed ==
    \E i \in CallsTo({"subprocess.run"}) :
      LET a == calls[i].ans
      IN \/ a.kind = "raise"
         \/ /\ a.kind = "ok"
            /\ (a.value.returncode # 0 \/ a.value.stdout.form = "garbled")

\* C1: in list_compute_instances the SDK listing is tried first: with a
\* compute client the first vendor request is the SDK listing, and the CLI
\* subprocess runs only after list_instances_sdk has raised in the same
\* invocation (the vendor's listing raised, or there is no compute client and
\* it raised 'OCI SDK not available'), never after the SDK listing returned.
C1_CliOnlyAfterSdkRaised ==
    call.name = "list_compute_instances" =>
      /\ (Truthy(compute_client) /\ calls # <<>>)
            => calls[1].req.api = "compute.list_instances"
      /\ \A i \in CallsTo({"subprocess.run"}) :
            /\ Truthy(frame.sdk_error)
            /\ \A j \in CallsTo({"compute.list_instances"}) :
                  j < i /\ calls[j].ans.kind = "raise"
            /\ IF Truthy(compute_client)
               THEN /\ i > 1
                    /\ calls[i - 1].req.api = "compute.list_instances"
                    /\ frame.sdk_error = calls[i - 1].ans.error
               ELSE frame.sdk_error = "OCI SDK not available"

\* C1 happens: the SDK listing raised, the CLI ran after it and the tool
\* returned the CLI's listing.
C1_Witness ==
    /\ Done("list_compute_instances")
    /\ Len(calls) = 2
    /\ calls[1].req.api = "compute.list_instances"
    /\ calls[1].ans.kind = "raise"
    /\ calls[2].req.api = "subprocess.run"
    /\ result.value.success

C3_BothFailNoRetry ==
    call.name = "list_compute_instances" =>
      /\ Cardinality(CallsTo({"compute.list_instances"})) <= 1
      /\ Cardinality(CallsTo({"subprocess.run"})) <= 1
      /\ (pc = "done" /\ Truthy(frame.sdk_error) /\ CliFailed) =>
            /\ result.kind = "ok"
            /\ ~result.value.success
            /\ result.value.count = 0
            /\ result.value.instances = <<>>
            /\ "error" \in DOMAIN result.value
            /\ result.value.error # ""

\* C3 happens: the SDK listing raised, the CLI exited non-zero and the tool
\* has returned.
C3_Witness ==
    /\ Done("list_compute_instances")
    /\ Len(calls) = 2
    /\ calls[1].ans.kind = "raise"
    /\ calls[2].ans.kind = "ok"
    /\ calls[2].ans.value.returncode # 0
    /\ ~result.value.success

\* C4: every tool invocation ends by returning a response, and a response
\* that reports failure has success false, a summary and an error string.
C4_FailureHasError ==
    (pc = "done" /\ call.name \notin ManagerMethods) =>
      /\ result.kind = "ok"
      /\ "success" \in DOMAIN result.value
      /\ ~result.value.success =>
            {"summary", "error"} \subseteq DOMAIN result.value

\* The allow-list of each action operation.
AllowList(method) ==
    CASE method = "instance_action_sdk" -> {START, STOP, SOFTRESET, RESET, SOFTSTOP}
      [] method = "database_action_sdk" -> {START, STOP}
      [] method = "autonomous_database_action_sdk" -> {START, STOP, RESTART}

\* C5: an action operation called with an action whose upper-cased form is
\* not in its allow-list raises without having sent any vendor request.
C5_InvalidActionRejectedFirst ==
    (/\ call.name \in ManagerMethods
     /\ Upper(call.args.action) \notin AllowList(call.name))
    => (calls = <<>> /\ pc = "done" /\ result.kind = "raise")

\* C5 happens: with a compute client, instance_action_sdk was called with an
\* action outside its allow-list and has raised.
C5_Witness ==
    /\ call.name = "instance_action_sdk"
    /\ Truthy(compute_client)
    /\ Upper(call.args.action) = RESTART
    /\ result.kind = "raise"

Payload(tool) ==
    CASE tool = "list_compute_instances" -> "instances"
      [] tool = "list_instances_with_network" -> "instances"
      [] tool = "list_database_systems" -> "database_systems"
      [] tool = "list_autonomous_databases" -> "autonomous_databases"

\* The listing requests of the invocation that produced a listing, and the
\* number of resources each listed.
Listings ==
    {i \in CallsTo(SdkListingApis \cup {"subprocess.run"}) :
        /\ calls[i].ans.kind = "ok"
        /\ calls[i].req.api = "subprocess.run" =>
              /\ calls[i].ans.value.returncode = 0
              /\ calls[i].ans.value.stdout.form # "garbled"}

NumberListed(i) ==
    IF calls[i].req.api # "subprocess.run" THEN Len(calls[i].ans.value)
    ELSE IF calls[i].ans.value.stdout.form = "json"
    THEN Len(calls[i].ans.value.stdout.doc.data)
    ELSE 0

\* C7: in every response of a listing tool count is the length of the
\* returned sequence; in a success response both are the number of resources
\* of the one listing request that produced a listing, in a failure response
\* both are 0.
C7_CountIsLength ==
    (pc = "done" /\ call.name \in ListingTools) =>
      LET r == result.value
      IN /\ r.count = Len(r[Payload(call.name)])
         /\ r.success =>
               /\ Cardinality(Listings) = 1
               /\ \A i \in Listings : r.count = NumberListed(i)
         /\ ~r.success => r.count = 0

\* C7 happens: a listing tool has returned a listing that is not empty.
C7_Witness ==
    /\ Done("list_compute_instances")
    /\ result.value.success
    /\ result.value.method = "OCI Python SDK"
    /\ result.value.count >= 1

\* The vendor attribute a field of an instance record is taken from.
VendorAttribute(field) ==
    CASE field = "name" -> "display_name"
      [] field = "state" -> "lifecycle_state"
      [] field = "created_time" -> "time_created"
      [] OTHER -> field

\* The CLI's record c and the SDK's record s of the vendor instance inst have
\* the same fields, and the same value in each field but region; with
\* `given`, only the fields whose vendor attribute is not null are compared.
SameButRegion(c, s, inst, given) ==
    /\ DOMAIN c = DOMAIN s
    /\ DOMAIN c.tags = DOMAIN s.tags
    /\ \A f \in DOMAIN c \ {"region", "tags"} :
          (given => inst[VendorAttribute(f)] # None) => c[f] = s[f]
    /\ (given => inst.freeform_tags # None) => c.tags.freeform = s.tags.freeform
    /\ (given => inst.defined_tags # None) => c.tags.defined = s.tags.defined

\* list_compute_instances has returned the listing the CLI printed as JSON.
ReturnedCliListing ==
    /\ Done("list_compute_instances")
    /\ result.value.method = "OCI CLI"
    /\ LastAnswer.value.stdout.form = "json"

\* The records returned from the CLI agree with the SDK's records of every
\* vendor listing the CLI's document is a print of.
CliAgreesWithSdk(given) ==
    ReturnedCliListing =>
      \A l \in InstanceLists(frame.target_compartment, call.args.lifecycle_state),
         st \in CliStyles :
        CliJsonDoc(l, st) = LastAnswer.value.stdout.doc =>
          \A i \in 1..Len(l) :
            SameButRegion(result.value.instances[i], instance_data(l[i]), l[i], given)

\* C8 as first stated: the CLI's records have the SDK's fields and, but for
\* region, the SDK's values.
C8_Original == CliAgreesWithSdk(FALSE)

\* C8, amended: the CLI's records have the SDK's fields and, but for region,
\* the SDK's value in every field whose vendor attribute is not null.  (For a
\* null attribute the SDK path gives None, or {} for metadata and tags, and
\* the CLI path gives None when the key is printed as null and the default
\* '', 'Unknown' or {} when the key is left out.)
C8_SameFieldsSameGivenValues == CliAgreesWithSdk(TRUE)

\* C8 happens: the CLI listed an instance and the tool returned its record.
C8_Witness ==
    /\ ReturnedCliListing
    /\ Len(result.value.instances) >= 1
    /\ result.value.instances[1].name = "web"

\* C9: a state-check tool that succeeds made one vendor request, the get of
\* the identifier it was called with, and state_info.lifecycle_state is the
\* lifecycle state that get returned.
C9_StateUnmodified ==
    call.name \in StateTools =>
      /\ Len(calls) <= 1
      /\ (pc = "done" /\ result.value.success) =>
            /\ Len(calls) = 1
            /\ calls[1].req.params = call.args
            /\ calls[1].ans.kind = "ok"
            /\ result.value.state_info.lifecycle_state
                  = calls[1].ans.value.lifecycle_state

\* C9 happens: the vendor reported STOPPED and the state check returned.
C9_Witness ==
    /\ Done("get_compute_instance_state")
    /\ result.value.success
    /\ calls[1].ans.value.lifecycle_state = "STOPPED"

\* An instance listing tool has returned after the CLI subprocess ran to its
\* end.
CliRan ==
    /\ pc = "done"
    /\ call.name \in {"list_compute_instances", "list_instances_with_network"}
    /\ calls # <<>>
    /\ calls[Len(calls)].req.api = "subprocess.run"
    /\ LastAnswer.kind = "ok"

\* C10 as first stated: a non-zero exit status and empty output both make
\* the fallback listing fail.
C10_Original ==
    (/\ CliRan
     /\ \/ LastAnswer.value.returncode # 0
        \/ LastAnswer.value.stdout.form \in {"empty", "blank"})
    => ~result.value.success

\* C10, amended: a non-zero exit status makes the fallback listing fail with
\* 'CLI command failed: <stderr>'; exit status 0 with empty or blank output is
\* an empty listing, returned with success true and count 0.
C10_NonZeroFailsEmptyIsNoInstances ==
    CliRan =>
      /\ LastAnswer.value.returncode # 0 =>
            /\ ~result.value.success
            /\ result.value.error
                  = "CLI command failed: " \o LastAnswer.value.stderr
      /\ (/\ LastAnswer.value.returncode = 0
          /\ LastAnswer.value.stdout.form \in {"empty", "blank"}) =>
            /\ result.value.success
            /\ result.value.method # "Error"
            /\ result.value.count = 0
            /\ result.value.instances = <<>>

\* C10 happens: the CLI exited 0 having printed a blank line and the tool
\* returned an empty listing.
C10_Witness ==
    /\ CliRan
    /\ LastAnswer.value.returncode = 0
    /\ LastAnswer.value.stdout.form = "blank"
    /\ result.value.success

\* C11: a listing tool whose listing returned no resources without failing
\* (the SDK listing returned an empty collection, or the CLI exited 0 with an
\* empty listing) returns success true, count 0 and an empty sequence.
C11_EmptyListingSucceeds ==
    (/\ pc = "done"
     /\ call.name \in ListingTools
     /\ \E i \in Listings : NumberListed(i) = 0)
    => /\ result.value.success
       /\ result.value.count = 0
       /\ result.value[Payload(call.name)] = <<>>

\* C11 happens: the vendor listed no database systems and the tool returned.
C11_Witness ==
    /\ Done("list_database_systems")
    /\ Len(calls) = 1
    /\ calls[1].ans.kind = "ok"
    /\ calls[1].ans.value = <<>>
    /\ result.value.count = 0

DetailsTools == {"get_instance_details", "get_autonomous_database_details"}

\* The field of a details tool's response that holds the resource.
DetailsPayload(tool) ==
    CASE tool = "get_instance_details" -> "instance"
      [] tool = "get_autonomous_database_details" -> "autonomous_database"

\* C12: a details tool whose get call raised makes no further vendor request
\* and returns success false, a non-empty error string, an empty payload
\* object and, for instances, no network interfaces.
C12_UnknownIdNoPartialPayload ==
    (/\ pc = "done"
     /\ call.name \in DetailsTools
     /\ calls # <<>>
     /\ calls[1].ans.kind = "raise")
    => /\ Len(calls) = 1
       /\ ~result.value.success
       /\ result.value.error # ""
       /\ result.value[DetailsPayload(call.name)] = <<>>
       /\ call.name = "get_instance_details" =>
             result.value.network_interfaces = <<>>

\* C12 happens: the vendor refused the instance read and the tool returned.
C12_Witness ==
    /\ Done("get_instance_details")
    /\ Len(calls) = 1
    /\ calls[1].ans.kind = "raise"
    /\ result.value.error = ServiceError

\* The payload field of each tool's response.
PayloadField(tool) ==
    IF tool \in ListingTools THEN Payload(tool)
    ELSE IF tool \in DetailsTools THEN DetailsPayload(tool)
    ELSE IF tool \in ActionTools THEN "action_details"
    ELSE IF tool \in StateTools THEN "state_info"
    ELSE "tests"

C14_NoMerging ==
    Done("list_compute_instances") =>
      LET r == result.value
      IN /\ (r.method = "Error") <=> ~r.success
         /\ r.success =>
               \/ /\ r.method = "OCI Python SDK"
                  /\ Len(calls) = 1
                  /\ calls[1].req.api = "compute.list_instances"
                  /\ r.instances = list_instances_sdk_result(calls[1].ans).value
               \/ /\ r.method = "OCI CLI"
                  /\ calls[Len(calls)].req.api = "subprocess.run"
                  /\ \A i \in CallsTo({"compute.list_instances"}) :
                        calls[i].ans.kind = "raise"
                  /\ r.instances = list_instances_cli_fallback_result(LastAnswer).value

\* C14 happens: the SDK listing raised and the CLI's two records were returned.
C14_Witness ==
    /\ Done("list_compute_instances")
    /\ result.value.method = "OCI CLI"
    /\ Len(calls) = 2
    /\ Len(result.value.instances) = 2

\* The SDK client a tool without a CLI path needs.
NeededClient(tool) ==
    IF tool \in {"get_instance_details", "get_compute_instance_state",
                 "start_compute_instance", "stop_compute_instance",
                 "restart_compute_instance"}
    THEN compute_client
    ELSE database_client

\* C15: the details, state-check, lifecycle and scale tools never run the CLI
\* subprocess, and without the SDK client they need they return a failure
\* response having made no vendor request.
C15_CliForListingOnly ==
    call.name \in DetailsTools \cup StateTools \cup ActionTools =>
      /\ CallsTo({"subprocess.run"}) = {}
      /\ ~Truthy(NeededClient(call.name)) =>
            /\ calls = <<>>
            /\ pc = "done"
            /\ result.kind = "ok"
            /\ ~result.value.success
            /\ result.value.error # ""

\* C15 happens: a state check without a compute client has reported failure.
C15_Witness ==
    /\ Done("get_compute_instance_state")
    /\ ~Truthy(compute_client)
    /\ ~result.value.success

\* C16: no step of any tool invocation, and so no sequence of invocations,
\* changes config, compute_client, network_client or database_client.
C16_BundleUnchanged == [][manager' = manager]_vars

\* C16 happens: an invocation in which the SDK listing failed has ended and
\* the clients are still there.
C16_Witness ==
    /\ Done("list_compute_instances")
    /\ frame.sdk_error = ServiceError
    /\ Truthy(config)
    /\ Truthy(compute_client)

\* C17: the vendor requests of an invocation go out one after another: every
\* request but the latest has been answered, so at most one is outstanding.
C17_OneRequestOutstanding ==
    /\ \A i \in 1..(Len(calls) - 1) : calls[i].ans.kind # "pending"
    /\ Cardinality({i \in DOMAIN calls : calls[i].ans.kind = "pending"}) <= 1

\* C17 happens: list_instances_with_network waits for the VNIC of its second
\* instance, the lookups of the first being over.
C17_Witness ==
    /\ call.name = "list_instances_with_network"
    /\ pc = "get_instance_network_info_sdk.vnic"
    /\ frame.index = 2
    /\ ~Answered
    /\ Len(calls) >= 4

\* The compartment a listing tool is to use: the argument, else the
\* environment's OCI_COMPARTMENT_ID, else the tenancy of the loaded config,
\* else none.
ExpectedCompartment ==
    IF call.args.compartment_id \notin {None, ""} THEN call.args.compartment_id
    ELSE IF environ \notin {None, ""} THEN environ
    ELSE IF config # None THEN ConfigFile.tenancy
    ELSE None

\* The requests of the current invocation that name a compartment.
CompartmentCalls ==
    CallsTo(SdkListingApis \cup {"subprocess.run", "compute.list_vnic_attachments"})

\* C18: a listing tool uses the compartment_id argument if given, else the
\* OCI_COMPARTMENT_ID of the environment if set, else the tenancy of the
\* loaded config; when none of them gives a value it returns the failure
\* 'Compartment ID is required' having made no vendor request.
C18_CompartmentResolution ==
    call.name \in ListingTools =>
      IF ExpectedCompartment # None
      THEN /\ \A i \in CompartmentCalls :
                 calls[i].req.params.compartment_id = ExpectedCompartment
           /\ (pc = "done" /\ result.value.success) =>
                 result.value.filters.compartment_id = ExpectedCompartment
           /\ (pc = "done" /\ ~result.value.success) =>
                 result.value.error # "Compartment ID is required"
      ELSE /\ calls = <<>>
           /\ pc = "done"
           /\ result.kind = "ok"
           /\ ~result.value.success
           /\ result.value.error = "Compartment ID is required"

\* C18 happens: with no argument and an empty OCI_COMPARTMENT_ID a listing
\* went to the vendor for the tenancy.
C18_Witness ==
    /\ Done("list_database_systems")
    /\ call.args.compartment_id = None
    /\ environ = ""
    /\ calls # <<>>
    /\ calls[1].req.params.compartment_id = ConfigFile.tenancy
    /\ result.value.success

\* C18 happens, the other way: nothing gives a compartment and the listing
\* failed without a vendor request.
C18_WitnessNone ==
    /\ Done("list_compute_instances")
    /\ ExpectedCompartment = None
    /\ calls = <<>>

InstanceActionTools ==
    {"start_compute_instance", "stop_compute_instance", "restart_compute_instance"}

\* The action an instance lifecycle tool is to send, as text.
ExpectedAction ==
    CASE call.name = "start_compute_instance" -> "START"
      [] call.name = "stop_compute_instance" ->
            IF call.args.soft_stop THEN "SOFTSTOP" ELSE "STOP"
      [] call.name = "restart_compute_instance" ->
            IF call.args.soft_restart THEN "SOFTRESET" ELSE "RESET"

\* C19: stop_compute_instance sends SOFTSTOP when soft_stop is true and STOP
\* when it is false, restart_compute_instance sends SOFTRESET when
\* soft_restart is true and RESET when it is false, start_compute_instance
\* sends START; the action in action_details is the one that was sent.
C19_ActionSentByFlag ==
    call.name \in InstanceActionTools =>
      /\ \A i \in CallsTo({"compute.instance_action"}) :
            Text(calls[i].req.params.action) = ExpectedAction
      /\ (pc = "done" /\ result.value.success) =>
            /\ Cardinality(CallsTo({"compute.instance_action"})) = 1
            /\ result.value.action_details.action
                 = calls[Len(calls)].req.params.action
            /\ Text(result.value.action_details.action) = ExpectedAction

\* C19 happens: a graceful stop went out as SOFTSTOP and was accepted.
C19_Witness ==
    /\ Done("stop_compute_instance")
    /\ call.args.soft_stop
    /\ result.value.success
    /\ Text(result.value.action_details.action) = "SOFTSTOP"

\* C19 happens, the other cases: a forced stop and a forced restart were
\* accepted.
C19_WitnessForced ==
    /\ Done("restart_compute_instance")
    /\ ~call.args.soft_restart
    /\ result.value.success
    /\ Text(calls[Len(calls)].req.params.action) = "RESET"

\* C20: in one list_compute_instances invocation the compartment and the
\* lifecycle state given to the CLI subprocess, on its command line, are the
\* ones that were given to the SDK listing.
C20_CliSameFilters ==
    call.name = "list_compute_instances" =>
      \A i \in CallsTo({"subprocess.run"}) :
        LET cli == calls[i].req.params
        IN /\ cli.cmd[5] = "--compartment-id"
           /\ cli.cmd[6] = frame.target_compartment
           /\ cli.cmd[7] = "--lifecycle-state"
           /\ cli.cmd[8] = call.args.lifecycle_state
           /\ cli.compartment_id = cli.cmd[6]
           /\ cli.lifecycle_state = cli.cmd[8]
           /\ \A j \in CallsTo({"compute.list_instances"}) :
                 /\ j < i
                 /\ calls[j].req.params.compartment_id = cli.cmd[6]
                 /\ calls[j].req.params.lifecycle_state = cli.cmd[8]

\* C20 happens: the SDK listing of the stopped instances of the environment's
\* compartment failed and the CLI was asked for the same.
C20_Witness ==
    /\ call.name = "list_compute_instances"
    /\ Len(calls) = 2
    /\ calls[1].req.api = "compute.list_instances"
    /\ calls[1].ans.kind = "raise"
    /\ calls[1].req.params.lifecycle_state = "STOPPED"
    /\ calls[1].req.params.compartment_id = "ocid1.compartment.oc1..env"
    /\ calls[2].req.api = "subprocess.run"
    /\ calls[2].req.params.cmd[8] = "STOPPED"
    /\ calls[2].req.params.cmd[6] = "ocid1.compartment.oc1..env"

\* The client a manager method needs.
MethodClient(method) ==
    IF method = "instance_action_sdk" THEN compute_client ELSE database_client

\* The vendor operation that carries out the upper-cased action `a` of `method`.
ActionApi(method, a) ==
    CASE method = "instance_action_sdk" -> "compute.instance_action"
      [] method = "database_action_sdk" /\ a = START -> "database.start_db_system"
      [] method = "database_action_sdk" /\ a = STOP -> "database.stop_db_system"
      [] method = "autonomous_database_action_sdk" /\ a = START ->
            "database.start_autonomous_database"
      [] method = "autonomous_database_action_sdk" /\ a = STOP ->
            "database.stop_autonomous_database"
      [] method = "autonomous_database_action_sdk" /\ a = RESTART ->
            "database.restart_autonomous_database"

\* C21: a manager's action method accepts an action exactly when its
\* upper-cased form is in the method's allow-list, whatever the case it was
\* written in; the action sent to the vendor and the action recorded in the
\* result are the upper-cased form.
C21_CaseInsensitiveNormalized ==
    (call.name \in ManagerMethods /\ Truthy(MethodClient(call.name))) =>
      LET a == Upper(call.args.action)
      IN /\ (calls # <<>>) <=> (a \in AllowList(call.name))
         /\ (calls = <<>>) => (pc = "done" /\ result.kind = "raise")
         /\ \A i \in CallsTo(ActionApis) :
               /\ calls[i].req.api = ActionApi(call.name, a)
               /\ call.name = "instance_action_sdk" =>
                     calls[i].req.params.action = a
         /\ (pc = "done" /\ result.kind = "ok") =>
               /\ CallsTo(ActionApis) # {}
               /\ result.value.action = a

\* C21 happens: instance_action_sdk was called with "start" in lower case, and
\* START went to the vendor and into the result.
C21_Witness ==
    /\ Done("instance_action_sdk")
    /\ call.args.action = <<"s", "t", "a", "r", "t">>
    /\ result.kind = "ok"
    /\ calls[2].req.params.action = START
    /\ result.value.action = START

\* C21 happens, for the databases: "restart" in lower case restarted an
\* autonomous database.
C21_WitnessDatabases ==
    /\ Done("autonomous_database_action_sdk")
    /\ call.args.action = <<"r", "e", "s", "t", "a", "r", "t">>
    /\ result.kind = "ok"
    /\ result.value.action = RESTART

\* The lifecycle action operations: the tools, and the manager's methods
\* called directly.
LifecycleOperations == (ActionTools \ {"scale_autonomous_database"}) \cup ManagerMethods

LifecycleApis == ActionApis \ {"database.update_autonomous_database"}

ReadApis ==
    {"compute.get_instance", "database.get_db_system",
     "database.get_autonomous_database"}

\* The action_result of a finished lifecycle operation.
ActionResult ==
    IF call.name \in ManagerMethods THEN result.value
    ELSE result.value.action_details

\* The finished lifecycle operation succeeded.
ActionSucceeded ==
    IF call.name \in ManagerMethods THEN result.kind = "ok"
    ELSE result.value.success

\* C22: in a lifecycle action operation the read of the resource comes before
\* the action request; if the read raises the action request is never sent
\* and the operation reports failure; if the action was sent and accepted,
\* previous_state in the result is the lifecycle state that read returned.
C22_ReadBeforeAction ==
    call.name \in LifecycleOperations =>
      /\ \A i \in CallsTo(LifecycleApis) :
            /\ i = 2
            /\ calls[1].req.api \in ReadApis
            /\ calls[1].ans.kind = "ok"
      /\ (calls # <<>> /\ calls[1].ans.kind = "raise") =>
            /\ Len(calls) = 1
            /\ pc = "done" => ~ActionSucceeded
      /\ (pc = "done" /\ ActionSucceeded) =>
            /\ CallsTo(LifecycleApis) = {2}
            /\ ActionResult.previous_state = calls[1].ans.value.lifecycle_state

\* C22 happens: a stopped database system was read and then started, and the
\* result says it was stopped.
C22_Witness ==
    /\ Done("start_database_system")
    /\ result.value.success
    /\ calls[1].ans.value.lifecycle_state = "STOPPED"
    /\ result.value.action_details.previous_state = "STOPPED"

\* C22 happens, the failing read: the read of the instance raised and the
\* restart was reported as failed with nothing more sent.
C22_WitnessReadFailed ==
    /\ Done("restart_compute_instance")
    /\ Len(calls) = 1
    /\ calls[1].ans.kind = "raise"
    /\ ~result.value.success

\* The scaling arguments of the current scale_autonomous_database invocation.
ScaleArgsOf ==
    [k \in DOMAIN call.args \ {"autonomous_database_id"} |-> call.args[k]]

\* The scaling parameters the caller of scale_autonomous_database gave.
ScaleGiven == {k \in DOMAIN ScaleArgsOf : ScaleArgsOf[k] # None}

UpdateCalls == CallsTo({"database.update_autonomous_database"})

\* C23 as stated, its first half: with every scaling parameter None the tool
\* fails with 'No scaling parameters provided', the read having been sent and
\* the update not.
C23_Original ==
    (Done("scale_autonomous_database") /\ ScaleGiven = {}) =>
      /\ ~result.value.success
      /\ result.value.error = "No scaling parameters provided"
      /\ UpdateCalls = {}
      /\ calls # <<>>
      /\ calls[1].req.api = "database.get_autonomous_database"

\* C23, amended: with every scaling parameter None the update is never sent
\* and the tool fails; without a database client nothing is sent and the
\* error is 'Autonomous database scaling requires OCI SDK'; with one the read
\* is sent, and the error is the read's when the read raised and 'No scaling
\* parameters provided' when it returned.  With at least one parameter given
\* the update carries exactly the parameters that are not None, changes has
\* one entry for each of them, and the tool never fails with 'No scaling
\* parameters provided'.
C23_ScaleParameters ==
    call.name = "scale_autonomous_database" =>
      IF ScaleGiven = {}
      THEN /\ UpdateCalls = {}
           /\ IF Truthy(database_client)
              THEN /\ Len(calls) = 1
                   /\ calls[1].req.api = "database.get_autonomous_database"
              ELSE calls = <<>>
           /\ pc = "done" =>
                 /\ ~result.value.success
                 /\ result.value.error =
                      IF ~Truthy(database_client)
                      THEN "Autonomous database scaling requires OCI SDK"
                      ELSE IF calls[1].ans.kind = "raise" THEN calls[1].ans.error
                      ELSE "No scaling parameters provided"
      ELSE /\ \A i \in UpdateCalls :
                 LET details == calls[i].req.params.update_autonomous_database_details
                 IN /\ DOMAIN details = ScaleGiven
                    /\ \A k \in ScaleGiven : details[k] = call.args[k]
           /\ (pc = "done" /\ result.value.success) =>
                 LET changes == result.value.action_details.changes
                 IN /\ UpdateCalls # {}
                    /\ Len(changes) = Cardinality(ScaleGiven)
                    /\ {changes[j] : j \in DOMAIN changes}
                         = {ChangeText(k, call.args[k]) : k \in ScaleGiven}
           /\ (pc = "done" /\ ~result.value.success) =>
                 result.value.error # "No scaling parameters provided"

\* C23 happens: with no parameter given the database was read and the tool
\* failed with 'No scaling parameters provided'.
C23_Witness ==
    /\ Done("scale_autonomous_database")
    /\ ScaleGiven = {}
    /\ Len(calls) = 1
    /\ calls[1].ans.kind = "ok"
    /\ result.value.error = "No scaling parameters provided"

\* C23 happens, with parameters: an ECPU count and a False auto-scaling flag
\* were given and the update with the two of them was accepted.
C23_WitnessGiven ==
    /\ Done("scale_autonomous_database")
    /\ ScaleGiven = {"compute_count", "is_auto_scaling_enabled"}
    /\ call.args.is_auto_scaling_enabled = PyFalse
    /\ result.value.success
    /\ Len(result.value.action_details.changes) = 2

\* The manager method a lifecycle tool calls.
MethodOf(tool) ==
    IF tool \in InstanceActionTools THEN "instance_action_sdk"
    ELSE IF tool \in {"start_database_system", "stop_database_system"}
    THEN "database_action_sdk"
    ELSE "autonomous_database_action_sdk"

\* The messages with which the manager's methods reject an action.
InvalidActionErrors ==
    {"Invalid action '" \o Text(a)
       \o "'. Valid actions: START, STOP, SOFTRESET, RESET, SOFTSTOP" :
       a \in ActionNames}
    \cup {"Invalid database action '" \o Text(a)
            \o "'. Valid actions: START, STOP" : a \in ActionNames}
    \cup {"Invalid autonomous database action '" \o Text(a)
            \o "'. Valid actions: START, STOP, RESTART" : a \in ActionNames}

\* C24: the action a lifecycle tool passes to the manager is in the allow-list
\* of the method it calls, so no tool invocation ends in the rejection of an
\* invalid action.
C24_ToolActionsValid ==
    call.name \in ActionTools \ {"scale_autonomous_database"} =>
      /\ frame.action \in AllowList(MethodOf(call.name))
      /\ \A i \in CallsTo(LifecycleApis) :
            calls[i].req.api = ActionApi(MethodOf(call.name), frame.action)
      /\ (pc = "done" /\ ~result.value.success) =>
            result.value.error \notin InvalidActionErrors

\* C24 happens: restart_autonomous_database passed RESTART, which the manager
\* accepted and sent.
C24_Witness ==
    /\ call.name = "restart_autonomous_database"
    /\ frame.action = RESTART
    /\ Len(calls) = 2
    /\ calls[2].req.api = "database.restart_autonomous_database"

\* The record `r` of a listed instance has the three primary fields of the
\* interface `nic`, or None in all three when there is none (nic = 0).
PrimaryFieldsFrom(r, nic) ==
    IF nic = 0
    THEN /\ r.primary_private_ip = None
         /\ r.primary_public_ip = None
         /\ r.hostname = None
    ELSE /\ r.primary_private_ip = r.network_interfaces[nic].private_ip
         /\ r.primary_public_ip = r.network_interfaces[nic].public_ip
         /\ r.hostname = r.network_interfaces[nic].hostname

\* The interfaces of `r` marked is_primary.
PrimaryInterfaces(r) ==
    {n \in DOMAIN r.network_interfaces : r.network_interfaces[n].is_primary}

\* The network lookup of the instance `id` failed: its VNIC attachments could
\* not be listed.
LookupFailed(id) ==
    \E i \in CallsTo({"compute.list_vnic_attachments"}) :
      calls[i].req.params.instance_id = id /\ calls[i].ans.kind = "raise"

C25_WitnessSecondary ==
    /\ Done("list_instances_with_network")
    /\ result.value.success
    /\ Len(result.value.instances) >= 1
    /\ Len(result.value.instances[1].network_interfaces) = 1
    /\ PrimaryInterfaces(result.value.instances[1]) = {}

\* C25 happens, the CLI: without a compute client the CLI listed an instance.
C25_WitnessCli ==
    /\ Done("list_instances_with_network")
    /\ ~Truthy(compute_client)
    /\ result.value.success
    /\ result.value.method = "OCI CLI (limited network info)"
    /\ Len(result.value.instances) >= 1

AttachmentCalls == CallsTo({"compute.list_vnic_attachments"})

\* What get_instance_network_info_sdk returned for the lookup that began with
\* request i, as the finished tool's response shows it.
NicsOf(i) ==
    IF call.name = "get_instance_details" THEN result.value.network_interfaces
    ELSE LET n == CHOOSE n \in DOMAIN result.value.instances :
                    result.value.instances[n].id = calls[i].req.params.instance_id
         IN result.value.instances[n].network_interfaces

RECURSIVE Kept(_, _, _)
\* The attachments from the k-th on, of the list answered to request i, whose
\* VNIC was read: in the vendor's order.
Kept(i, attachments, k) ==
    IF k > Len(attachments) THEN <<>>
    ELSE (IF calls[i + k].ans.kind = "ok" THEN <<attachments[k]>> ELSE <<>>)
         \o Kept(i, attachments, k + 1)

\* The lookup that began with request i sent nothing after request j.
LookupEndsAt(i, j) ==
    \/ j = Len(calls)
    \/ calls[j + 1].req.api = "compute.list_vnic_attachments"

\* C26: with both clients get_instance_network_info_sdk never raises: when
\* the listing of the VNIC attachments fails it returns an empty list; else
\* it reads the VNIC of every attachment once, in the vendor's order, and
\* returns exactly the attachments whose VNIC was read, in that order.
C26_NetworkInfoNeverRaises ==
    (/\ pc = "done"
     /\ call.name \in {"get_instance_details", "list_instances_with_network"}
     /\ AttachmentCalls # {}) =>
      /\ Truthy(compute_client) /\ Truthy(network_client)
      /\ result.value.success
      /\ \A i \in AttachmentCalls :
           LET a == calls[i].ans
           IN IF a.kind = "raise"
              THEN NicsOf(i) = <<>> /\ LookupEndsAt(i, i)
              ELSE /\ Len(calls) >= i + Len(a.value)
                   /\ \A k \in 1..Len(a.value) :
                         calls[i + k].req = Request("network.get_vnic",
                                                    [vnic_id |-> a.value[k].vnic_id])
                   /\ LookupEndsAt(i, i + Len(a.value))
                   /\ LET kept == Kept(i, a.value, 1)
                      IN /\ Len(NicsOf(i)) = Len(kept)
                         /\ \A j \in DOMAIN kept :
                               /\ NicsOf(i)[j].attachment_id = kept[j].id
                               /\ NicsOf(i)[j].vnic_id = kept[j].vnic_id

\* C26 happens: of two attachments the first VNIC could not be read and the
\* second could, and the result is the second alone.
C26_Witness ==
    /\ Done("get_instance_details")
    /\ Len(calls) = 4
    /\ calls[2].ans.kind = "ok"
    /\ Len(calls[2].ans.value) = 2
    /\ calls[3].ans.kind = "raise"
    /\ calls[4].ans.kind = "ok"
    /\ Len(result.value.network_interfaces) = 1
    /\ result.value.network_interfaces[1].attachment_id = calls[2].ans.value[2].id

\* C26 happens, the listing of the attachments failing: the result is empty
\* and the tool went on.
C26_WitnessListingFailed ==
    /\ Done("list_instances_with_network")
    /\ AttachmentCalls # {}
    /\ \A i \in AttachmentCalls : calls[i].ans.kind = "raise"
    /\ result.value.success

NetworkApis == {"compute.list_vnic_attachments", "network.get_vnic"}

\* C27: in get_instance_details a network lookup that fails does not fail
\* the call: once the instance has been read the response has success true
\* whatever the network requests answered; network_info_included is true
\* exactly when include_network is true and at least one interface was
\* retrieved; with include_network false no network request is made.
C27_NetworkFailureTolerated ==
    call.name = "get_instance_details" =>
      /\ ~call.args.include_network => CallsTo(NetworkApis) = {}
      /\ CallsTo(NetworkApis) # {} => calls[1].ans.kind = "ok"
      /\ pc = "done" =>
            /\ (calls # <<>> /\ calls[1].ans.kind = "ok") => result.value.success
            /\ result.value.network_info_included
                 <=> (/\ call.args.include_network
                      /\ Len(result.value.network_interfaces) > 0)
            /\ result.value.network_info_included =>
                 \E i \in CallsTo({"network.get_vnic"}) : calls[i].ans.kind = "ok"

\* C27 happens: the instance was read, the listing of its VNIC attachments
\* failed, and the response is a success without network information.
C27_Witness ==
    /\ Done("get_instance_details")
    /\ call.args.include_network
    /\ Len(calls) = 2
    /\ calls[2].ans.kind = "raise"
    /\ result.value.success
    /\ ~result.value.network_info_included

\* C27 happens, the other cases: an interface was retrieved and is reported.
C27_WitnessIncluded ==
    /\ Done("get_instance_details")
    /\ result.value.success
    /\ result.value.network_info_included
    /\ Len(result.value.network_interfaces) = 2

ConnectionTests ==
    {"sdk_config", "compute_service", "network_service", "database_service",
     "autonomous_database_service"}

\* The tests of the finished connection test that have status failed.
FailedTests ==
    {t \in DOMAIN result.value.tests : result.value.tests[t].status = "failed"}

\* C28: test_core_services_connection reports exactly the five tests, each
\* with status success, warning or failed; success is false exactly when a
\* test has status failed, and the number in the failure summary is the
\* number of failed tests.
C28_FiveTests ==
    Done("test_core_services_connection") =>
      /\ result.kind = "ok"
      /\ DOMAIN result.value.tests = ConnectionTests
      /\ \A t \in ConnectionTests :
            result.value.tests[t].status \in {"success", "warning", "failed"}
      /\ ~result.value.success <=> FailedTests # {}
      /\ result.value.summary =
            IF FailedTests = {} THEN "All OCI Core Services accessible"
            ELSE ToString(Cardinality(FailedTests)) \o " out of 5 tests failed"

\* C28 happens: with the clients there, the compute listing raised and the
\* two database listings returned: one test of five failed.
C28_Witness ==
    /\ Done("test_core_services_connection")
    /\ FailedTests = {"compute_service"}
    /\ ~result.value.success
    /\ result.value.summary = "1 out of 5 tests failed"

\* C28 happens, the extreme: without config or clients every test failed.
C28_WitnessAllFailed ==
    /\ Done("test_core_services_connection")
    /\ FailedTests = ConnectionTests
    /\ result.value.summary = "5 out of 5 tests failed"

AllSet ==
    /\ config # None
    /\ compute_client # None
    /\ network_client # None
    /\ database_client # None

AllNone ==
    /\ config = None
    /\ compute_client = None
    /\ network_client = None
    /\ database_client = None

\* C29: the clients are all there or all missing: in every state config,
\* compute_client, network_client and database_client are all set or all
\* None, and an initialization that fails at any of its steps leaves the
\* four of them None.
C29_AllOrNothing ==
    /\ AllSet \/ AllNone
    /\ \A failing \in InitSteps \ {0} :
          LET m == _initialize_clients(failing)
          IN \A f \in DOMAIN m : m[f] = None
    /\ LET m == _initialize_clients(0)
       IN \A f \in DOMAIN m : m[f] # None

\* C29 happens: after an initialization that failed a tool has run with all
\* four None.
C29_Witness ==
    /\ pc = "done"
    /\ call.name = "list_compute_instances"
    /\ AllNone
    /\ calls # <<>>

\* C29 happens, the other half: a tool has run with all four set.
C29_WitnessAllSet ==
    /\ pc = "done"
    /\ call.name = "get_instance_details"
    /\ AllSet
    /\ calls # <<>>

====
